---- MODULE Spec2Model ----
(***************************************************************************)
(* Boot-image synthesizer of the Earthang (Rython) repository:             *)
(*   - rython/src/bios/transition.rs: the three boot-sector builders       *)
(*     (ModeTransitionEmitter, CompactBootloader, MicroBootloader);        *)
(*   - rython/src/bios/emitter.rs: the x86 opcode encoder (OpcodeEmitter). *)
(* Buffers are 0-based in the source and 1-based here: offset o of a       *)
(* buffer b is b[o + 1] (see At).                                          *)
(***************************************************************************)
EXTENDS Integers, Sequences, FiniteSets, TLC

VARIABLES
  variant,    \* what the caller drives: a builder ("general", "compact", "micro"),
              \* emit_bytes or emit directly, or the encoder
              \* ("encode_instruction", "modrm_byte")
  binary,     \* ModeTransitionEmitter.binary, per instance
  position,   \* ModeTransitionEmitter.position, per instance
  flags,      \* ModeTransitionEmitter.{is_64bit,has_paging,has_avx512,has_sse,has_avx}
  epc,        \* where create_bootloader stands: [at |-> phase, k |-> next emit_bytes call]
  eret,       \* what the create_bootloader calls returned so far, per instance
  code,       \* CompactBootloader.code, per instance
  cpos,       \* the local `pos` of CompactBootloader::create, per instance
  cpc,        \* where CompactBootloader::create stands
  cret,       \* what the CompactBootloader::create calls returned so far
  mcode,      \* MicroBootloader.code, per instance
  mpc,        \* where MicroBootloader::create stands
  mret,       \* what the MicroBootloader::create calls returned so far
  written,    \* per instance and phase, the span of offsets the phase wrote in this call
  last_emit,  \* the emit_bytes / emit call the last step made, if any: its arguments,
              \* the buffer before it, and its result
  instr,      \* the Instruction handed to OpcodeEmitter::encode_instruction
  encoded,    \* what encode_instruction returned for instr
  modrm_args, \* the (mode, reg, rm) handed to OpcodeEmitter::modrm_byte
  modrm_ret,  \* what modrm_byte returned for modrm_args
  kernel,     \* the GraphicsKernel: [code, entry_point]
  loaded,     \* the slices handed to GraphicsKernel::load_graphics_code so far
  disk        \* what create_disk_image returned for the kernel as it stands

vars == <<variant, binary, position, flags, epc, eret, code, cpos, cpc, cret,
          mcode, mpc, mret, written, last_emit, instr, encoded, modrm_args,
          modrm_ret, kernel, loaded, disk>>

(***************************************************************************)
(* Bounds of the model.                                                    *)
(***************************************************************************)
\* how many times a caller builds on one builder instance
MaxCalls == 2
\* longest byte slice a caller passes to emit_bytes / emit directly
MaxSliceLen == 2

\* two builder instances, so that two builds can be compared
Inst == {1, 2}

\* how many operands the instructions built from the small operand set carry
MaxOperands == 2
\* the largest value of a field handed to modrm_byte directly
MaxField == 8
\* how many times a caller loads code into one GraphicsKernel
MaxLoads == 2

(***************************************************************************)
(* Program constants.                                                      *)
(***************************************************************************)
\* the length of the three buffers: vec![0u8; 512]
SECTOR_SIZE == 512
\* `> 510` in emit_bytes and emit; binary[510], binary[511] hold the signature
CODE_LIMIT == 510

Zeros(n) == [k \in 1..n |-> 0]
At(buf, off) == buf[off + 1]
Min(a, b) == IF a < b THEN a ELSE b
Max(a, b) == IF a > b THEN a ELSE b

(***************************************************************************)
(* The bytes the builders emit, as the source lists them.                  *)
(***************************************************************************)
\* A plausible slip: the direction flag cleared before the stack pointer is set.
emit_16bit_setup_bytes_cld_first ==
  << <<\hFA>>, <<\h31, \hC0>>, <<\h8E, \hD8>>, <<\h8E, \hC0>>, <<\h8E, \hD0>>,
     <<\hFC>>, <<\hBC, \h00, \h7C>> >>

\* emit_16bit_setup: the byte slices it passes to emit_bytes, in call order
emit_16bit_setup_bytes ==
  <<
    <<\hFA>>,
    <<\h31, \hC0>>,
    <<\h8E, \hD8>>,
    <<\h8E, \hC0>>,
    <<\h8E, \hD0>>,
    <<\hBC, \h00, \h7C>>,
    <<\hFC>>
  >>

\* emit_enable_a20: the byte slices it passes to emit_bytes, in call order
emit_enable_a20_bytes ==
  <<
    <<\hE4, \h92>>,
    <<\h0C, \h02>>,
    <<\hE6, \h92>>,
    <<\hEB, \h00>>
  >>

\* emit_cpuid_detection: the byte slices it passes to emit_bytes, in call order
emit_cpuid_detection_bytes ==
  <<
    <<\h9C>>,
    <<\h58>>,
    <<\h89, \hC3>>,
    <<\h35, \h00, \h02>>,
    <<\h50>>,
    <<\h9D>>,
    <<\h9C>>,
    <<\h58>>,
    <<\h50>>,
    <<\h89, \hD8>>,
    <<\h50>>,
    <<\h9D>>,
    <<\h31, \hD2>>,
    <<\h39, \hD8>>,
    <<\h74, \h05>>,
    <<\h31, \hC0>>,
    <<\h0F, \hA2>>,
    <<\hB8, \h01, \h00, \h00, \h00>>,
    <<\h0F, \hA2>>,
    <<\hF6, \hC2, \h20>>,
    <<\h0F, \h85, \h03, \h00>>,
    <<\hF6, \hC1, \h10>>,
    <<\h0F, \h85, \h03, \h00>>,
    <<\hB8, \h07, \h00, \h00, \h00>>,
    <<\h31, \hC9>>,
    <<\h0F, \hA2>>,
    <<\hF6, \hC3, \h10>>,
    <<\h0F, \h85, \h03, \h00>>
  >>

\* emit_enter_protected_mode: the byte slices it passes to emit_bytes, in call order
emit_enter_protected_mode_bytes ==
  <<
    <<\h0F, \h01, \h16>>,
    <<\h00, \h00>>,
    <<\h0F, \h20, \hC0>>,
    <<\h66, \h83, \hC8, \h01>>,
    <<\h0F, \h22, \hC0>>,
    <<\hEA>>,
    <<\h00, \h00, \h00, \h00>>,
    <<\h08, \h00>>,
    <<\h66, \hB8, \h10, \h00>>,
    <<\h8E, \hD8>>,
    <<\h8E, \hC0>>,
    <<\h8E, \hD0>>,
    <<\h8E, \hE0>>,
    <<\h8E, \hE8>>,
    <<\hBC, \h00, \h00, \h00, \h00>>
  >>

\* emit_setup_paging: the byte slices it passes to emit_bytes, in call order
emit_setup_paging_bytes ==
  <<
    <<\hBF, \h00, \h10, \h00, \h00>>,
    <<\hB9, \h00, \h10, \h00, \h00>>,
    <<\h31, \hC0>>,
    <<\hF3, \hAB>>,
    <<\hC7, \h05, \h00, \h10, \h00, \h00, \h07, \h20, \h00, \h00>>,
    <<\hC7, \h05, \h00, \h20, \h00, \h00, \h07, \h30, \h00, \h00>>,
    <<\hC7, \h05, \h00, \h30, \h00, \h00, \h07, \h40, \h00, \h00>>,
    <<\hBF, \h00, \h40, \h00, \h00>>,
    <<\hB9, \h00, \h02, \h00, \h00>>,
    <<\h31, \hC0>>,
    <<\h89, \h07>>,
    <<\h83, \hC0, \h01>>,
    <<\h83, \hC7, \h04>>,
    <<\hE2, \hF7>>,
    <<\h0F, \h20, \hE0>>,
    <<\h0D, \h20, \h00, \h00, \h00>>,
    <<\h0F, \h22, \hE0>>,
    <<\hB8, \h00, \h10, \h00, \h00>>,
    <<\h0F, \h22, \hD8>>
  >>

\* emit_enter_long_mode: the byte slices it passes to emit_bytes, in call order
emit_enter_long_mode_bytes ==
  <<
    <<\hB8, \hC0, \h00, \h00, \h00>>,
    <<\h0F, \h32>>,
    <<\h0D, \h00, \h01, \h00, \h00>>,
    <<\h0F, \h30>>,
    <<\h0F, \h20, \hC0>>,
    <<\h0D, \h00, \h00, \h00, \h80>>,
    <<\h0F, \h22, \hC0>>,
    <<\h0F, \h01, \h15>>,
    <<\h00, \h00>>,
    <<\hEA>>,
    <<\h00, \h00, \h00, \h00>>,
    <<\h08, \h00>>,
    <<\h48, \h31, \hC0>>,
    <<\h48, \h8E, \hD8>>,
    <<\h48, \h8E, \hC0>>,
    <<\h48, \h8E, \hD0>>,
    <<\h48, \h8E, \hE0>>,
    <<\h48, \h8E, \hE8>>,
    <<\h48, \hBC, \h00, \h00, \h00, \h00, \h00, \h00, \h00, \h00>>
  >>

\* emit_enable_simd: the byte slices it passes to emit_bytes, in call order
emit_enable_simd_bytes ==
  <<
    <<\h48, \h0F, \h20, \hC0>>,
    <<\h48, \h25, \hFB, \hFF, \hFF, \hFF>>,
    <<\h48, \h0D, \h02, \h00, \h00, \h00>>,
    <<\h48, \h0F, \h22, \hC0>>,
    <<\h48, \h0F, \h20, \hE0>>,
    <<\h48, \h0D, \h00, \h06, \h00, \h00>>,
    <<\h48, \h0F, \h22, \hE0>>,
    <<\h48, \hC7, \hC0, \h01, \h00, \h00, \h00>>,
    <<\h48, \h31, \hC9>>,
    <<\h0F, \hA2>>,
    <<\h48, \hF7, \hC2, \h00, \h04, \h00, \h00>>,
    <<\h0F, \h84, \h00, \h00, \h00, \h00>>,
    <<\h48, \h0F, \h20, \hE0>>,
    <<\h48, \h0D, \h00, \h00, \h04, \h00>>,
    <<\h48, \h0F, \h22, \hE0>>,
    <<\h48, \h31, \hC0>>,
    <<\h48, \h31, \hD2>>,
    <<\h48, \h0F, \h01, \hD0>>,
    <<\h48, \h0D, \h03, \h00, \h00, \h00>>,
    <<\h48, \h31, \hD2>>,
    <<\h48, \h0F, \h01, \hD1>>,
    <<\h48, \hC7, \hC0, \h01, \h00, \h00, \h00>>,
    <<\h48, \h31, \hC9>>,
    <<\h0F, \hA2>>,
    <<\h48, \hF7, \hC1, \h00, \h00, \h00, \h10>>,
    <<\h0F, \h84, \h00, \h00, \h00, \h00>>,
    <<\h48, \h31, \hC0>>,
    <<\h48, \h31, \hD2>>,
    <<\h48, \h0F, \h01, \hD0>>,
    <<\h48, \h0D, \h07, \h00, \h00, \h00>>,
    <<\h48, \h31, \hD2>>,
    <<\h48, \h0F, \h01, \hD1>>,
    <<\h48, \hC7, \hC0, \h07, \h00, \h00, \h00>>,
    <<\h48, \h31, \hC9>>,
    <<\h0F, \hA2>>,
    <<\h48, \hF7, \hC3, \h00, \h00, \h00, \h10>>,
    <<\h0F, \h84, \h00, \h00, \h00, \h00>>,
    <<\h48, \h31, \hC0>>,
    <<\h48, \h31, \hD2>>,
    <<\h48, \h0F, \h01, \hD0>>,
    <<\h48, \h0D, \hE7, \h00, \h00, \h00>>,
    <<\h48, \h31, \hD2>>,
    <<\h48, \h0F, \h01, \hD1>>
  >>

\* emit_jump_to_graphics: the byte slices it passes to emit_bytes, in call order
emit_jump_to_graphics_bytes ==
  <<
    <<\h48, \hB8, \h00, \h00, \h10, \h00, \h00, \h00, \h00, \h00>>,
    <<\hFF, \hE0>>
  >>

\* CompactBootloader::emit_16bit: its `code` array
emit_16bit_code ==
  <<
    \hFA, \h31, \hC0, \h8E, \hD8, \h8E, \hC0, \h8E,
    \hD0, \hBC, \h00, \h7C, \hFC, \hB8, \h13, \h00,
    \hCD, \h10
  >>

\* CompactBootloader::emit_a20: its `code` array
emit_a20_code ==
  <<
    \hE4, \h92, \h0C, \h02, \hE6, \h92, \hEB, \h00
  >>

\* CompactBootloader::emit_pmode: its `code` array
emit_pmode_code ==
  <<
    \h0F, \h01, \h16, \h7A, \h7C, \h0F, \h20, \hC0,
    \h66, \h83, \hC8, \h01, \h0F, \h22, \hC0, \hEA,
    \h2E, \h00, \h00, \h00, \h08, \h00, \h66, \hB8,
    \h10, \h00, \h8E, \hD8, \h8E, \hC0
  >>

\* CompactBootloader::emit_paging: its `code` array
emit_paging_code ==
  <<
    \hBF, \h00, \h10, \h00, \h00, \hB9, \h00, \h04,
    \h00, \h00, \h31, \hC0, \hF3, \hAB, \hC7, \h05,
    \h00, \h10, \h00, \h00, \h07, \h20, \h00, \h00,
    \hC7, \h05, \h00, \h20, \h00, \h00, \h07, \h30,
    \h00, \h00, \hC7, \h05, \h00, \h30, \h00, \h00,
    \h83, \h00, \h00, \h00, \h0F, \h20, \hE0, \h0D,
    \h20, \h00, \h00, \h00, \h0F, \h22, \hE0, \hB8,
    \h00, \h10, \h00, \h00, \h0F, \h22, \hD8
  >>

\* CompactBootloader::emit_lmode: its `code` array
emit_lmode_code ==
  <<
    \hB8, \hC0, \h00, \h00, \h00, \h0F, \h32, \h0D,
    \h00, \h01, \h00, \h00, \h0F, \h30, \h0F, \h20,
    \hC0, \h0D, \h00, \h00, \h00, \h80, \h0F, \h22,
    \hC0, \h0F, \h01, \h16, \h82, \h7C, \hEA, \h94,
    \h00, \h00, \h00, \h08, \h00
  >>

\* CompactBootloader::emit_sse: its `code` array
emit_sse_code ==
  <<
    \h48, \h0F, \h20, \hC0, \h48, \h25, \hFB, \hFF,
    \hFF, \hFF, \h48, \h0D, \h02, \h00, \h00, \h00,
    \h48, \h0F, \h22, \hC0, \h48, \h0F, \h20, \hE0,
    \h48, \h0D, \h00, \h06, \h00, \h00, \h48, \h0F,
    \h22, \hE0
  >>

\* CompactBootloader::emit_jump: its `code` array
emit_jump_code ==
  <<
    \h48, \hB8, \h00, \h00, \h01, \h00, \h00, \h00,
    \h00, \h00, \hFF, \hE0
  >>

\* CompactBootloader::emit_data: the two GDT arrays and the message
gdt32 ==
  <<
    \h17, \h00, \h7A, \h7C, \h00, \h00, \h00, \h00,
    \h00, \h00, \h00, \h00, \h00, \h00, \hFF, \hFF,
    \h00, \h00, \h00, \h9A, \hCF, \h00, \hFF, \hFF,
    \h00, \h00, \h00, \h92, \hCF, \h00
  >>

gdt64 ==
  <<
    \h17, \h00, \h82, \h7C, \h00, \h00, \h00, \h00,
    \h00, \h00, \h00, \h00, \h00, \h00, \h00, \h00,
    \h00, \h00, \h00, \h9A, \h20, \h00, \h00, \h00,
    \h00, \h00, \h00, \h92, \h00, \h00
  >>

message ==
  <<
    \h52, \h79, \h74, \h68, \h6F, \h6E, \h20, \h36,
    \h34, \h2D, \h62, \h69, \h74, \h20, \h42, \h6F,
    \h6F, \h74, \h6C, \h6F, \h61, \h64, \h65, \h72,
    \h20, \h76, \h31, \h2E, \h30
  >>

\* MicroBootloader::create: the hand-coded boot_code array
boot_code ==
  <<
    \hFA, \h31, \hC0, \h8E, \hD8, \h8E, \hC0, \h8E, \hD0, \hBC, \h00, \h7C, \hFC, \hE4, \h92, \h0C,
    \h02, \hE6, \h92, \hEB, \h00, \h0F, \h01, \h16, \h5A, \h7C, \h0F, \h20, \hC0, \h66, \h83, \hC8,
    \h01, \h0F, \h22, \hC0, \hEA, \h22, \h00, \h00, \h00, \h08, \h00, \h66, \hB8, \h10, \h00, \h8E,
    \hD8, \h8E, \hC0, \hBF, \h00, \h10, \h00, \h00, \hB9, \h00, \h04, \h00, \h00, \h31, \hC0, \hF3,
    \hAB, \hC7, \h05, \h00, \h10, \h00, \h00, \h07, \h20, \h00, \h00, \hC7, \h05, \h00, \h20, \h00,
    \h00, \h83, \h00, \h00, \h00, \h0F, \h20, \hE0, \h0D, \h20, \h00, \h00, \h00, \h0F, \h22, \hE0,
    \hB8, \h00, \h10, \h00, \h00, \h0F, \h22, \hD8, \hB8, \hC0, \h00, \h00, \h00, \h0F, \h32, \h0D,
    \h00, \h01, \h00, \h00, \h0F, \h30, \h0F, \h20, \hC0, \h0D, \h00, \h00, \h00, \h80, \h0F, \h22,
    \hC0, \h0F, \h01, \h16, \h62, \h7C, \hEA, \h74, \h00, \h00, \h00, \h08, \h00, \h48, \h0F, \h20,
    \hC0, \h48, \h25, \hFB, \hFF, \hFF, \hFF, \h48, \h0D, \h02, \h00, \h00, \h00, \h48, \h0F, \h22,
    \hC0, \h48, \h0F, \h20, \hE0, \h48, \h0D, \h00, \h06, \h00, \h00, \h48, \h0F, \h22, \hE0, \h48,
    \hB8, \h00, \h00, \h01, \h00, \h00, \h00, \h00, \h00, \hFF, \hE0, \h17, \h00, \h5A, \h7C, \h00,
    \h00, \h00, \h00, \h00, \h00, \h00, \h00, \h00, \h00, \hFF, \hFF, \h00, \h00, \h00, \h9A, \hCF,
    \h00, \hFF, \hFF, \h00, \h00, \h00, \h92, \hCF, \h00, \h17, \h00, \h62, \h7C, \h00, \h00, \h00,
    \h00, \h00, \h00, \h00, \h00, \h00, \h00, \h00, \h00, \h00, \h00, \h00, \h9A, \h20, \h00, \h00,
    \h00, \h00, \h00, \h00, \h00, \h92, \h00, \h00, \h52, \h79, \h74, \h68, \h6F, \h6E, \h20, \h4D,
    \h69, \h63, \h72, \h6F, \h20, \h42, \h6F, \h6F, \h74, \h00, \h00, \h00, \h00, \h00, \h00, \h00
  >>

\* ModeTransitionEmitter::generate_gdt_tables: the pair (gdt32, gdt64) it returns,
\* each the null, the code and the data descriptor. No code calls it.
generate_gdt_tables ==
  << <<\h00, \h00, \h00, \h00, \h00, \h00, \h00, \h00,
       \hFF, \hFF, \h00, \h00, \h00, \h9A, \hCF, \h00,
       \hFF, \hFF, \h00, \h00, \h00, \h92, \hCF, \h00>>,
     <<\h00, \h00, \h00, \h00, \h00, \h00, \h00, \h00,
       \h00, \h00, \h00, \h00, \h00, \h9A, \h20, \h00,
       \h00, \h00, \h00, \h00, \h00, \h92, \h00, \h00>> >>

(***************************************************************************)
(* Results of a build: Ok(image) or Err(message).                          *)
(***************************************************************************)
Ok(img) == [ok |-> TRUE, image |-> img, err |-> ""]
Err(msg) == [ok |-> FALSE, image |-> <<>>, err |-> msg]

\* What last_emit keeps of the call of emit_bytes / emit the last step made, and
\* its value when the last step made none.
EmitRecord(fn, i, p, bytes, before, ok) ==
  [fn |-> fn, inst |-> i, p |-> p, bytes |-> bytes, before |-> before, ok |-> ok]
NoEmit == EmitRecord("none", 0, 0, <<>>, <<>>, FALSE)

\* The span log of a call: which phase wrote which offsets [lo, hi), in the order of
\* the writes; consecutive writes of one phase that touch are one span.
NoteWrite(log, phase, lo, hi) ==
  IF lo = hi THEN log
  ELSE IF log # <<>> /\ log[Len(log)].phase = phase /\ log[Len(log)].hi = lo
    THEN [log EXCEPT ![Len(log)].hi = hi]
    ELSE Append(log, [phase |-> phase, lo |-> lo, hi |-> hi])

(***************************************************************************)
(* ModeTransitionEmitter                                                   *)
(***************************************************************************)
\* ModeTransitionEmitter::new
ModeTransitionEmitter_new ==
  [binary |-> Zeros(SECTOR_SIZE), position |-> 0,
   flags |-> [is_64bit |-> FALSE, has_paging |-> FALSE, has_avx512 |-> FALSE,
              has_sse |-> FALSE, has_avx |-> FALSE]]

\* A plausible slip: the bytes that fit are written before the error is returned.
emit_bytes_truncating(bin, pos, bytes) ==
  LET n == IF pos + Len(bytes) > CODE_LIMIT THEN Max(CODE_LIMIT - pos, 0) ELSE Len(bytes)
  IN [ok |-> ~(pos + Len(bytes) > CODE_LIMIT),
      binary |-> SubSeq(bin, 1, pos) \o SubSeq(bytes, 1, n)
                   \o SubSeq(bin, pos + n + 1, Len(bin)),
      position |-> pos + n]

\* A plausible slip: the budget taken as the whole sector, 512, instead of 510.
emit_bytes_limit_512(bin, pos, bytes) ==
  IF pos + Len(bytes) > SECTOR_SIZE
    THEN [ok |-> FALSE, binary |-> bin, position |-> pos]
    ELSE [ok |-> TRUE,
          binary |-> SubSeq(bin, 1, pos) \o bytes
                       \o SubSeq(bin, pos + Len(bytes) + 1, Len(bin)),
          position |-> pos + Len(bytes)]

\* ModeTransitionEmitter::emit_bytes on an emitter with this binary and position:
\* the result, and the binary and position it leaves. The loop stores bytes[0..]
\* at binary[position..] and leaves the bytes before and after as they are.
emit_bytes(bin, pos, bytes) ==
  IF pos + Len(bytes) > CODE_LIMIT
    THEN [ok |-> FALSE, binary |-> bin, position |-> pos]
    ELSE [ok |-> TRUE,
          binary |-> SubSeq(bin, 1, pos) \o bytes
                       \o SubSeq(bin, pos + Len(bytes) + 1, Len(bin)),
          position |-> pos + Len(bytes)]

\* the message of the error emit_bytes and emit return
SIZE_ERROR == "Bootloader exceeds 512 bytes"

\* A plausible slip: long mode entered before the page tables are set up.
create_bootloader_phases_swapped ==
  <<"emit_16bit_setup", "emit_enable_a20", "emit_cpuid_detection",
    "emit_enter_protected_mode", "emit_enter_long_mode", "emit_setup_paging",
    "emit_enable_simd", "emit_jump_to_graphics">>

\* create_bootloader: the phases in the order it calls them
create_bootloader_phases ==
  <<"emit_16bit_setup", "emit_enable_a20", "emit_cpuid_detection",
    "emit_enter_protected_mode", "emit_setup_paging", "emit_enter_long_mode",
    "emit_enable_simd", "emit_jump_to_graphics">>

PhaseBytes(name) ==
  CASE name = "emit_16bit_setup" -> emit_16bit_setup_bytes
    [] name = "emit_enable_a20" -> emit_enable_a20_bytes
    [] name = "emit_cpuid_detection" -> emit_cpuid_detection_bytes
    [] name = "emit_enter_protected_mode" -> emit_enter_protected_mode_bytes
    [] name = "emit_setup_paging" -> emit_setup_paging_bytes
    [] name = "emit_enter_long_mode" -> emit_enter_long_mode_bytes
    [] name = "emit_enable_simd" -> emit_enable_simd_bytes
    [] name = "emit_jump_to_graphics" -> emit_jump_to_graphics_bytes

IndexOf(seq, x) == CHOOSE k \in 1..Len(seq) : seq[k] = x

\* what create_bootloader does after phase `name` returned Ok: the next phase, or
\* the NOP padding loop after the last one
PhaseAfter(name) ==
  LET n == IndexOf(create_bootloader_phases, name)
  IN IF n < Len(create_bootloader_phases)
       THEN create_bootloader_phases[n + 1] ELSE "pad"

\* the flag assignments of the phases, each taken with the emit_bytes call it follows
FlagsAfter(name, k, f) ==
  CASE name = "emit_setup_paging" /\ k = Len(emit_setup_paging_bytes) ->
         [f EXCEPT !.has_paging = TRUE]
    [] name = "emit_enter_long_mode" /\ k = Len(emit_enter_long_mode_bytes) ->
         [f EXCEPT !.is_64bit = TRUE]
    [] name = "emit_enable_simd" /\ k = 32 -> [f EXCEPT !.has_avx = TRUE]
    [] name = "emit_enable_simd" /\ k = Len(emit_enable_simd_bytes) ->
         [f EXCEPT !.has_avx512 = TRUE]
    [] OTHER -> f

\* A plausible slip: the signature one byte early.
emitter_signature_shifted(bin) == [bin EXCEPT ![510] = \h55, ![511] = \hAA]

\* create_bootloader: binary[510] = 0x55; binary[511] = 0xAA
emitter_signature(bin) == [bin EXCEPT ![511] = \h55, ![512] = \hAA]

Idle == [at |-> "idle", k |-> 0]

\* A plausible slip: one cursor shared by every emitter instead of a field of each.
shared_position(i) == position[1]

\* self.position of instance i
self_position(i) == position[i]

\* The program is single-threaded: a build runs to its return before the caller
\* makes the next call.
Quiescent == \A j \in Inst : epc[j] = Idle /\ cpc[j] = Idle /\ mpc[j] = "idle"

UnchangedCompact == UNCHANGED <<code, cpos, cpc, cret>>
UnchangedMicro == UNCHANGED <<mcode, mpc, mret>>
UnchangedEmitter == UNCHANGED <<binary, position, flags, epc, eret>>
UnchangedEncoder == UNCHANGED <<instr, encoded, modrm_args, modrm_ret>>
UnchangedKernel == UNCHANGED <<kernel, loaded, disk>>

\* a caller calls create_bootloader on instance i
create_bootloader(i) ==
  /\ variant = "general"
  /\ Quiescent
  /\ Len(eret[i]) < MaxCalls
  /\ epc' = [epc EXCEPT ![i] = [at |-> create_bootloader_phases[1], k |-> 1]]
  /\ written' = [written EXCEPT ![i] = <<>>]
  /\ last_emit' = NoEmit
  /\ UNCHANGED <<variant, binary, position, flags, eret>>
  /\ UnchangedCompact /\ UnchangedMicro /\ UnchangedEncoder /\ UnchangedKernel

\* one emit_bytes(..)? call of phase `name` on instance i: on Ok the cursor moves on,
\* on Err the `?` returns the error from the phase and from create_bootloader
PhaseStep(i, name) ==
  /\ variant = "general"
  /\ epc[i].at = name
  /\ LET chunks == PhaseBytes(name)
         k == epc[i].k
         r == emit_bytes(binary[i], self_position(i), chunks[k])
     IN /\ IF r.ok
          THEN /\ binary' = [binary EXCEPT ![i] = r.binary]
               /\ position' = [position EXCEPT ![i] = r.position]
               /\ flags' = [flags EXCEPT ![i] = FlagsAfter(name, k, @)]
               /\ epc' = [epc EXCEPT ![i] =
                            IF k < Len(chunks) THEN [at |-> name, k |-> k + 1]
                                               ELSE [at |-> PhaseAfter(name), k |-> 1]]
               /\ written' = [written EXCEPT ![i] =
                                NoteWrite(@, name, position[i], r.position)]
               /\ UNCHANGED eret
          ELSE /\ eret' = [eret EXCEPT ![i] = Append(@, Err(SIZE_ERROR))]
               /\ epc' = [epc EXCEPT ![i] = Idle]
               /\ UNCHANGED <<binary, position, flags, written>>
        /\ last_emit' = EmitRecord("emit_bytes", i, position[i], chunks[k], binary[i], r.ok)
  /\ UNCHANGED variant
  /\ UnchangedCompact /\ UnchangedMicro /\ UnchangedEncoder /\ UnchangedKernel

emit_16bit_setup(i) == PhaseStep(i, "emit_16bit_setup")
emit_enable_a20(i) == PhaseStep(i, "emit_enable_a20")
emit_cpuid_detection(i) == PhaseStep(i, "emit_cpuid_detection")
emit_enter_protected_mode(i) == PhaseStep(i, "emit_enter_protected_mode")
emit_setup_paging(i) == PhaseStep(i, "emit_setup_paging")
emit_enter_long_mode(i) == PhaseStep(i, "emit_enter_long_mode")
emit_enable_simd(i) == PhaseStep(i, "emit_enable_simd")
emit_jump_to_graphics(i) == PhaseStep(i, "emit_jump_to_graphics")

\* one turn of `while self.position < 510 { self.emit_nop()?; }`
emit_nop(i) ==
  /\ variant = "general"
  /\ epc[i].at = "pad"
  /\ self_position(i) < CODE_LIMIT
  /\ LET r == emit_bytes(binary[i], self_position(i), <<\h90>>)
     IN /\ IF r.ok
          THEN /\ binary' = [binary EXCEPT ![i] = r.binary]
               /\ position' = [position EXCEPT ![i] = r.position]
               /\ written' = [written EXCEPT ![i] =
                                NoteWrite(@, "pad", position[i], r.position)]
               /\ UNCHANGED <<epc, eret>>
          ELSE /\ eret' = [eret EXCEPT ![i] = Append(@, Err(SIZE_ERROR))]
               /\ epc' = [epc EXCEPT ![i] = Idle]
               /\ UNCHANGED <<binary, position, written>>
        /\ last_emit' = EmitRecord("emit_bytes", i, position[i], <<\h90>>, binary[i], r.ok)
  /\ UNCHANGED <<variant, flags>>
  /\ UnchangedCompact /\ UnchangedMicro /\ UnchangedEncoder /\ UnchangedKernel

\* the padding loop ends and the boot signature is stored
emitter_sign(i) ==
  /\ variant = "general"
  /\ epc[i].at = "pad"
  /\ ~(self_position(i) < CODE_LIMIT)
  /\ binary' = [binary EXCEPT ![i] = emitter_signature(@)]
  /\ written' = [written EXCEPT ![i] = NoteWrite(@, "signature", 510, 512)]
  /\ epc' = [epc EXCEPT ![i] = [at |-> "ret", k |-> 0]]
  /\ last_emit' = NoEmit
  /\ UNCHANGED <<variant, position, flags, eret>>
  /\ UnchangedCompact /\ UnchangedMicro /\ UnchangedEncoder /\ UnchangedKernel

\* Ok(self.binary.clone())
emitter_return(i) ==
  /\ variant = "general"
  /\ epc[i].at = "ret"
  /\ eret' = [eret EXCEPT ![i] = Append(@, Ok(binary[i]))]
  /\ epc' = [epc EXCEPT ![i] = Idle]
  /\ last_emit' = NoEmit
  /\ UNCHANGED <<variant, binary, position, flags, written>>
  /\ UnchangedCompact /\ UnchangedMicro /\ UnchangedEncoder /\ UnchangedKernel

(***************************************************************************)
(* CompactBootloader                                                       *)
(***************************************************************************)
\* CompactBootloader::new
CompactBootloader_new == [code |-> Zeros(SECTOR_SIZE)]

\* CompactBootloader::emit on a builder with this code, at *pos: the result, and
\* the code and *pos it leaves.
emit(buf, bytes, pos) ==
  IF pos + Len(bytes) > CODE_LIMIT
    THEN [ok |-> FALSE, code |-> buf, pos |-> pos]
    ELSE [ok |-> TRUE,
          code |-> SubSeq(buf, 1, pos) \o bytes
                     \o SubSeq(buf, pos + Len(bytes) + 1, Len(buf)),
          pos |-> pos + Len(bytes)]

\* create: `let mut pos = 0;` and the two bytes it stores itself, JMP short +0x4E
jump_over_data == <<\hEB, \h4E>>

\* create: the emit_* methods in the order it calls them
create_phases ==
  <<"emit_16bit", "emit_a20", "emit_pmode", "emit_paging", "emit_lmode",
    "emit_sse", "emit_jump", "emit_data">>

\* the slices each emit_* method passes to emit, in call order
CompactBytes(name) ==
  CASE name = "emit_16bit" -> <<emit_16bit_code>>
    [] name = "emit_a20" -> <<emit_a20_code>>
    [] name = "emit_pmode" -> <<emit_pmode_code>>
    [] name = "emit_paging" -> <<emit_paging_code>>
    [] name = "emit_lmode" -> <<emit_lmode_code>>
    [] name = "emit_sse" -> <<emit_sse_code>>
    [] name = "emit_jump" -> <<emit_jump_code>>
    [] name = "emit_data" -> <<gdt32, gdt64, message>>

CompactPhaseAfter(name) ==
  LET n == IndexOf(create_phases, name)
  IN IF n < Len(create_phases) THEN create_phases[n + 1] ELSE "sig"

\* create: code[510] = 0x55; code[511] = 0xAA
compact_signature(buf) == [buf EXCEPT ![511] = \h55, ![512] = \hAA]

\* a caller calls create on instance i: pos = 0, then code[0] and code[1] are stored
compact_create(i) ==
  /\ variant = "compact"
  /\ Quiescent
  /\ Len(cret[i]) < MaxCalls
  /\ code' = [code EXCEPT ![i] = [@ EXCEPT ![1] = jump_over_data[1],
                                           ![2] = jump_over_data[2]]]
  /\ cpos' = [cpos EXCEPT ![i] = 2]
  /\ cpc' = [cpc EXCEPT ![i] = [at |-> create_phases[1], k |-> 1]]
  /\ written' = [written EXCEPT ![i] = <<[phase |-> "jump_over_data", lo |-> 0, hi |-> 2]>>]
  /\ last_emit' = NoEmit
  /\ UNCHANGED <<variant, cret>>
  /\ UnchangedEmitter /\ UnchangedMicro /\ UnchangedEncoder /\ UnchangedKernel

\* one self.emit(..) call of method `name` on instance i; on Err the `?` returns
\* the error from create
CompactStep(i, name) ==
  /\ variant = "compact"
  /\ cpc[i].at = name
  /\ LET chunks == CompactBytes(name)
         k == cpc[i].k
         r == emit(code[i], chunks[k], cpos[i])
     IN /\ IF r.ok
          THEN /\ code' = [code EXCEPT ![i] = r.code]
               /\ cpos' = [cpos EXCEPT ![i] = r.pos]
               /\ cpc' = [cpc EXCEPT ![i] =
                            IF k < Len(chunks) THEN [at |-> name, k |-> k + 1]
                                               ELSE [at |-> CompactPhaseAfter(name), k |-> 1]]
               /\ written' = [written EXCEPT ![i] = NoteWrite(@, name, cpos[i], r.pos)]
               /\ UNCHANGED cret
          ELSE /\ cret' = [cret EXCEPT ![i] = Append(@, Err(SIZE_ERROR))]
               /\ cpc' = [cpc EXCEPT ![i] = Idle]
               /\ UNCHANGED <<code, cpos, written>>
        /\ last_emit' = EmitRecord("emit", i, cpos[i], chunks[k], code[i], r.ok)
  /\ UNCHANGED variant
  /\ UnchangedEmitter /\ UnchangedMicro /\ UnchangedEncoder /\ UnchangedKernel

emit_16bit(i) == CompactStep(i, "emit_16bit")
emit_a20(i) == CompactStep(i, "emit_a20")
emit_pmode(i) == CompactStep(i, "emit_pmode")
emit_paging(i) == CompactStep(i, "emit_paging")
emit_lmode(i) == CompactStep(i, "emit_lmode")
emit_sse(i) == CompactStep(i, "emit_sse")
emit_jump(i) == CompactStep(i, "emit_jump")
emit_data(i) == CompactStep(i, "emit_data")

\* the boot signature is stored
compact_sign(i) ==
  /\ variant = "compact"
  /\ cpc[i].at = "sig"
  /\ code' = [code EXCEPT ![i] = compact_signature(@)]
  /\ written' = [written EXCEPT ![i] = NoteWrite(@, "signature", CODE_LIMIT, SECTOR_SIZE)]
  /\ cpc' = [cpc EXCEPT ![i] = [at |-> "ret", k |-> 0]]
  /\ last_emit' = NoEmit
  /\ UNCHANGED <<variant, cpos, cret>>
  /\ UnchangedEmitter /\ UnchangedMicro /\ UnchangedEncoder /\ UnchangedKernel

\* Ok(self.code.clone())
compact_return(i) ==
  /\ variant = "compact"
  /\ cpc[i].at = "ret"
  /\ cret' = [cret EXCEPT ![i] = Append(@, Ok(code[i]))]
  /\ cpc' = [cpc EXCEPT ![i] = Idle]
  /\ last_emit' = NoEmit
  /\ UNCHANGED <<variant, code, cpos, written>>
  /\ UnchangedEmitter /\ UnchangedMicro /\ UnchangedEncoder /\ UnchangedKernel

(***************************************************************************)
(* MicroBootloader                                                         *)
(***************************************************************************)
\* MicroBootloader::new
MicroBootloader_new == [code |-> Zeros(SECTOR_SIZE)]

\* create: for i in 0..boot_code.len() { self.code[i] = boot_code[i]; }
copy_boot_code(buf) == boot_code \o SubSeq(buf, Len(boot_code) + 1, Len(buf))

\* create: code[510] = 0x55; code[511] = 0xAA
micro_signature(buf) == [buf EXCEPT ![511] = \h55, ![512] = \hAA]

\* a caller calls create on instance i: the copy loop
micro_create(i) ==
  /\ variant = "micro"
  /\ Quiescent
  /\ Len(mret[i]) < MaxCalls
  /\ mcode' = [mcode EXCEPT ![i] = copy_boot_code(@)]
  /\ mpc' = [mpc EXCEPT ![i] = "sig"]
  /\ last_emit' = NoEmit
  /\ UNCHANGED <<variant, mret, written>>
  /\ UnchangedEmitter /\ UnchangedCompact /\ UnchangedEncoder /\ UnchangedKernel

\* the boot signature is stored
micro_sign(i) ==
  /\ variant = "micro"
  /\ mpc[i] = "sig"
  /\ mcode' = [mcode EXCEPT ![i] = micro_signature(@)]
  /\ mpc' = [mpc EXCEPT ![i] = "ret"]
  /\ last_emit' = NoEmit
  /\ UNCHANGED <<variant, mret, written>>
  /\ UnchangedEmitter /\ UnchangedCompact /\ UnchangedEncoder /\ UnchangedKernel

\* self.code.to_vec(); create returns a Vec<u8>, never an error
micro_return(i) ==
  /\ variant = "micro"
  /\ mpc[i] = "ret"
  /\ mret' = [mret EXCEPT ![i] = Append(@, Ok(mcode[i]))]
  /\ mpc' = [mpc EXCEPT ![i] = "idle"]
  /\ last_emit' = NoEmit
  /\ UNCHANGED <<variant, mcode, written>>
  /\ UnchangedEmitter /\ UnchangedCompact /\ UnchangedEncoder /\ UnchangedKernel

(***************************************************************************)
(* emit_bytes and emit called directly, as a test inside the module can:   *)
(* any slice of up to MaxSliceLen NOP bytes, at the cursor the calls so    *)
(* far have left.                                                          *)
(***************************************************************************)
RECURSIVE Nops(_)
Nops(n) == IF n = 0 THEN <<>> ELSE Append(Nops(n - 1), \h90)

Slices == {Nops(n) : n \in 0..MaxSliceLen}

\* emitter.emit_bytes(bs) on instance i
call_emit_bytes(i, bs) ==
  /\ variant = "emit_bytes"
  /\ LET r == emit_bytes(binary[i], position[i], bs)
     IN /\ binary' = [binary EXCEPT ![i] = r.binary]
        /\ position' = [position EXCEPT ![i] = r.position]
        /\ last_emit' = EmitRecord("emit_bytes", i, position[i], bs, binary[i], r.ok)
  /\ UNCHANGED <<variant, flags, epc, eret, written>>
  /\ UnchangedCompact /\ UnchangedMicro /\ UnchangedEncoder /\ UnchangedKernel

\* compact.emit(bs, &mut pos) on instance i, pos being the caller's cursor
call_emit(i, bs) ==
  /\ variant = "emit"
  /\ LET r == emit(code[i], bs, cpos[i])
     IN /\ code' = [code EXCEPT ![i] = r.code]
        /\ cpos' = [cpos EXCEPT ![i] = r.pos]
        /\ last_emit' = EmitRecord("emit", i, cpos[i], bs, code[i], r.ok)
  /\ UNCHANGED <<variant, cpc, cret, written>>
  /\ UnchangedEmitter /\ UnchangedMicro /\ UnchangedEncoder /\ UnchangedKernel

(***************************************************************************)
(* GraphicsKernel                                                          *)
(***************************************************************************)
\* GraphicsKernel::new: no code, entry_point 0x10000 (a u64, as 16-bit limbs, the
\* most significant first)
GraphicsKernel_new == [code |-> <<>>, entry_point |-> <<0, 0, 1, 0>>]

\* A plausible slip: the stored code not cleared before the new code is appended.
load_graphics_code_no_clear(kcode, graphics_code) ==
  LET padding == (4096 - (Len(graphics_code) % 4096)) % 4096
  IN kcode \o graphics_code \o Zeros(padding)

\* GraphicsKernel::load_graphics_code on a kernel holding kcode: the code it holds
\* afterwards. clear(), extend(graphics_code), extend(vec![0; padding]).
load_graphics_code(kcode, graphics_code) ==
  LET padding == (4096 - (Len(graphics_code) % 4096)) % 4096
  IN graphics_code \o Zeros(padding)

\* A plausible slip: the kernel placed at sector 64 (32KB), as the comment has it.
create_disk_image_at_32k(kcode) ==
  LET bootloader == micro_signature(copy_boot_code(MicroBootloader_new.code))
  IN bootloader \o Zeros(64 * 512 - Len(bootloader)) \o kcode

\* GraphicsKernel::create_disk_image on a kernel holding kcode: the sector a new
\* MicroBootloader creates, zeros up to 63 sectors, the kernel code
create_disk_image(kcode) ==
  LET bootloader == micro_signature(copy_boot_code(MicroBootloader_new.code))
  IN bootloader \o Zeros(63 * 512 - Len(bootloader)) \o kcode

\* The slices a caller loads: n bytes, none of them zero, the k-th depending on k
\* and on a seed, so that two slices differ and differ from the padding.
KernelInput(n, seed) == [k \in 1..n |-> ((k + seed) % 255) + 1]
KernelLengths == {0, 1, 4095, 4096, 4097}
KernelInputs == {KernelInput(n, seed) : n \in KernelLengths, seed \in {0, 7}}

\* no image made of the kernel as it stands
NoDisk == <<>>

\* kernel.load_graphics_code(graphics_code); an image made before is of the old
\* code and is dropped
call_load_graphics_code(graphics_code) ==
  /\ variant = "kernel"
  /\ Len(loaded) < MaxLoads
  /\ kernel' = [kernel EXCEPT !.code = load_graphics_code(@, graphics_code)]
  /\ loaded' = Append(loaded, graphics_code)
  /\ disk' = NoDisk
  /\ UNCHANGED <<variant, written, last_emit>>
  /\ UnchangedEmitter /\ UnchangedCompact /\ UnchangedMicro /\ UnchangedEncoder

\* kernel.create_disk_image()
call_create_disk_image ==
  /\ variant = "kernel"
  /\ disk = NoDisk
  /\ disk' = create_disk_image(kernel.code)
  /\ UNCHANGED <<variant, written, last_emit, kernel, loaded>>
  /\ UnchangedEmitter /\ UnchangedCompact /\ UnchangedMicro /\ UnchangedEncoder

(***************************************************************************)
(* OpcodeEmitter (emitter.rs)                                              *)
(***************************************************************************)
\* enum Register, by family
Reg8 == {"AL", "CL", "DL", "BL", "AH", "CH", "DH", "BH"}
Reg16 == {"AX", "CX", "DX", "BX", "SP", "BP", "SI", "DI"}
Reg32 == {"EAX", "ECX", "EDX", "EBX", "ESP", "EBP", "ESI", "EDI"}
Reg64 == {"RAX", "RCX", "RDX", "RBX", "RSP", "RBP", "RSI", "RDI"}
RegExt64 == {"R8", "R9", "R10", "R11", "R12", "R13", "R14", "R15"}
RegExt8 == {"R8B", "R9B", "R10B", "R11B", "R12B", "R13B", "R14B", "R15B"}
RegExt16 == {"R8W", "R9W", "R10W", "R11W", "R12W", "R13W", "R14W", "R15W"}
RegExt32 == {"R8D", "R9D", "R10D", "R11D", "R12D", "R13D", "R14D", "R15D"}
RegSeg == {"ES", "CS", "SS", "DS", "FS", "GS"}
Register ==
  Reg8 \cup Reg16 \cup Reg32 \cup Reg64 \cup RegExt64 \cup RegExt8 \cup RegExt16
    \cup RegExt32 \cup RegSeg

\* enum Operand. A u32 / u64 value is written as its 16-bit limbs, most
\* significant first; a u8 / u16 value, a displacement and a relative offset are
\* integers.
OpRegister(r) == [kind |-> "Register", reg |-> r]
OpMemory(m) == [kind |-> "Memory", mem |-> m]
Immediate8(v) == [kind |-> "Immediate8", value |-> v]
Immediate16(v) == [kind |-> "Immediate16", value |-> v]
Immediate32(v) == [kind |-> "Immediate32", value |-> v]
Immediate64(v) == [kind |-> "Immediate64", value |-> v]
Label(l) == [kind |-> "Label", label |-> l]
Relative8(r) == [kind |-> "Relative8", rel |-> r]
Relative16(r) == [kind |-> "Relative16", rel |-> r]
Relative32(r) == [kind |-> "Relative32", rel |-> r]

\* struct MemoryOperand; an absent register is "None"
MemoryOperand(segment, base, index, scale, displacement) ==
  [segment |-> segment, base |-> base, index |-> index, scale |-> scale,
   displacement |-> displacement]

\* Instruction::new(mnemonic).operands(ops), and the with_*_prefix builders
Instruction_new(mnemonic, ops) ==
  [mnemonic |-> mnemonic, operands |-> ops, size_prefix |-> FALSE,
   address_prefix |-> FALSE, lock_prefix |-> FALSE, rep_prefix |-> FALSE,
   repne_prefix |-> FALSE]

\* Result<u8, String> of register_code and modrm_byte
ValOk(v) == [ok |-> TRUE, val |-> v, err |-> ""]
ValErr(msg) == [ok |-> FALSE, val |-> 0, err |-> msg]

\* Result<Vec<u8>, String> of the encode functions; modrm lists the modrm_byte
\* calls that produced a byte of the result
EncOk(bytes, calls) == [ok |-> TRUE, bytes |-> bytes, err |-> "", modrm |-> calls]
EncErr(msg) == [ok |-> FALSE, bytes |-> <<>>, err |-> msg, modrm |-> <<>>]

\* u8 arithmetic: | on two bytes, and << that drops the bits shifted out
RECURSIVE BitOr(_, _)
BitOr(a, b) ==
  IF a = 0 THEN b
  ELSE IF b = 0 THEN a
  ELSE (IF a % 2 = 1 \/ b % 2 = 1 THEN 1 ELSE 0) + 2 * BitOr(a \div 2, b \div 2)
Shl8(a, n) == (a * 2^n) % 256

\* A plausible slip: the bytes of a value most significant first.
RECURSIVE to_be_bytes(_)
to_be_bytes(limbs) ==
  IF limbs = <<>> THEN <<>>
  ELSE <<Head(limbs) \div 256, Head(limbs) % 256>> \o to_be_bytes(Tail(limbs))

\* u16 / u32 / u64 ::to_le_bytes, on the limbs of the value
RECURSIVE to_le_bytes(_)
to_le_bytes(limbs) ==
  IF limbs = <<>> THEN <<>>
  ELSE to_le_bytes(Tail(limbs)) \o <<Head(limbs) % 256, Head(limbs) \div 256>>

\* A plausible slip: the displacement most significant byte first.
i32_to_be_bytes(d) ==
  <<(d \div 16777216) % 256, (d \div 65536) % 256, (d \div 256) % 256, d % 256>>

\* (d as u32).to_le_bytes() / (d as i32).to_le_bytes() of an i32: two's complement
i32_to_le_bytes(d) ==
  <<d % 256, (d \div 256) % 256, (d \div 65536) % 256, (d \div 16777216) % 256>>

\* `as u8` of an i8 or of an i32 displacement
as_u8(d) == d % 256

\* A plausible slip: R8..R15 and their narrower forms get their full number.
register_code_unmasked(reg) ==
  CASE reg \in {"AL", "AX", "EAX", "RAX"} -> ValOk(0)
    [] reg \in {"CL", "CX", "ECX", "RCX"} -> ValOk(1)
    [] reg \in {"DL", "DX", "EDX", "RDX"} -> ValOk(2)
    [] reg \in {"BL", "BX", "EBX", "RBX"} -> ValOk(3)
    [] reg \in {"AH", "SP", "ESP", "RSP"} -> ValOk(4)
    [] reg \in {"CH", "BP", "EBP", "RBP"} -> ValOk(5)
    [] reg \in {"DH", "SI", "ESI", "RSI"} -> ValOk(6)
    [] reg \in {"BH", "DI", "EDI", "RDI"} -> ValOk(7)
    [] reg \in {"R8", "R8B", "R8W", "R8D"} -> ValOk(8)
    [] reg \in {"R9", "R9B", "R9W", "R9D"} -> ValOk(9)
    [] reg \in {"R10", "R10B", "R10W", "R10D"} -> ValOk(10)
    [] reg \in {"R11", "R11B", "R11W", "R11D"} -> ValOk(11)
    [] reg \in {"R12", "R12B", "R12W", "R12D"} -> ValOk(12)
    [] reg \in {"R13", "R13B", "R13W", "R13D"} -> ValOk(13)
    [] reg \in {"R14", "R14B", "R14W", "R14D"} -> ValOk(14)
    [] reg \in {"R15", "R15B", "R15W", "R15D"} -> ValOk(15)
    [] OTHER -> ValErr("Unsupported register: " \o reg)

\* register_code
register_code(reg) ==
  CASE reg \in {"AL", "AX", "EAX", "RAX"} -> ValOk(0)
    [] reg \in {"CL", "CX", "ECX", "RCX"} -> ValOk(1)
    [] reg \in {"DL", "DX", "EDX", "RDX"} -> ValOk(2)
    [] reg \in {"BL", "BX", "EBX", "RBX"} -> ValOk(3)
    [] reg \in {"AH", "SP", "ESP", "RSP"} -> ValOk(4)
    [] reg \in {"CH", "BP", "EBP", "RBP"} -> ValOk(5)
    [] reg \in {"DH", "SI", "ESI", "RSI"} -> ValOk(6)
    [] reg \in {"BH", "DI", "EDI", "RDI"} -> ValOk(7)
    [] reg \in {"R8", "R8B", "R8W", "R8D"} -> ValOk(0)
    [] reg \in {"R9", "R9B", "R9W", "R9D"} -> ValOk(1)
    [] reg \in {"R10", "R10B", "R10W", "R10D"} -> ValOk(2)
    [] reg \in {"R11", "R11B", "R11W", "R11D"} -> ValOk(3)
    [] reg \in {"R12", "R12B", "R12W", "R12D"} -> ValOk(4)
    [] reg \in {"R13", "R13B", "R13W", "R13D"} -> ValOk(5)
    [] reg \in {"R14", "R14B", "R14W", "R14D"} -> ValOk(6)
    [] reg \in {"R15", "R15B", "R15W", "R15D"} -> ValOk(7)
    [] OTHER -> ValErr("Unsupported register: " \o reg)

register_code_8(reg) == register_code(reg)
register_code_16(reg) == register_code(reg)
register_code_32(reg) == register_code(reg)

\* A plausible slip: the fields are not validated.
modrm_byte_unchecked(mode, reg, rm) ==
  ValOk(BitOr(BitOr(Shl8(mode, 6), Shl8(reg, 3)), rm))

\* modrm_byte
modrm_byte(mode, reg, rm) ==
  IF mode > 3 \/ reg > 7 \/ rm > 7
    THEN ValErr("Invalid ModR/M fields")
    ELSE ValOk(BitOr(BitOr(Shl8(mode, 6), Shl8(reg, 3)), rm))

\* one modrm_byte call, as the result of an encode function records it
ModRMCall(mode, reg, rm, byte) == [mode |-> mode, reg |-> reg, rm |-> rm, byte |-> byte]

\* bytes.push(base + register_code(..)?) between the bytes pre and post
OpPlusReg(pre, base, rc, post) ==
  IF ~rc.ok THEN EncErr(rc.err)
  ELSE EncOk(pre \o <<(base + rc.val) % 256>> \o post, <<>>)

\* bytes.push(self.modrm_byte(mode, reg?, rm?)?) after the bytes pre and before
\* post; reg and rm are register_code results, evaluated in this order
ModRM(pre, mode, reg, rm, post) ==
  IF ~reg.ok THEN EncErr(reg.err)
  ELSE IF ~rm.ok THEN EncErr(rm.err)
  ELSE LET m == modrm_byte(mode, reg.val, rm.val)
       IN IF ~m.ok THEN EncErr(m.err)
          ELSE EncOk(pre \o <<m.val>> \o post,
                     <<ModRMCall(mode, reg.val, rm.val, m.val)>>)

\* encode_memory_operand: the bytes it appends for mem with reg_field
encode_memory_operand(mem, reg_field) ==
  LET d == mem.displacement
  IN IF mem.base # "None" /\ mem.index = "None"
       THEN LET mod_field == IF d = 0 /\ mem.base \notin {"BP", "RBP"} THEN 0
                             ELSE IF d >= -128 /\ d <= 127 THEN 1 ELSE 2
                displacement_bytes == IF mod_field = 0 THEN <<>>
                                      ELSE IF mod_field = 1 THEN <<as_u8(d)>>
                                      ELSE i32_to_le_bytes(d)
            IN ModRM(<<>>, mod_field, ValOk(reg_field), register_code(mem.base),
                     displacement_bytes)
     ELSE IF mem.base # "None" /\ mem.index # "None" /\ mem.scale = 1
       THEN LET mod_field == IF d = 0 THEN 0
                             ELSE IF d >= -128 /\ d <= 127 THEN 1 ELSE 2
                displacement_bytes == IF mod_field > 0 THEN i32_to_le_bytes(d) ELSE <<>>
                ri == register_code(mem.index)
                rb == register_code(mem.base)
            IN IF ~ri.ok THEN EncErr(ri.err)
               ELSE IF ~rb.ok THEN EncErr(rb.err)
               ELSE ModRM(<<BitOr(BitOr(Shl8(mem.scale, 6), Shl8(ri.val, 3)), rb.val)>>,
                          mod_field, ValOk(reg_field), ValOk(4), displacement_bytes)
     ELSE EncErr("Unsupported memory addressing mode")

\* A plausible slip: the scale of a base+index operand is not looked at.
MemForm_any_scale(pre, mem, rc) ==
  IF ~rc.ok THEN EncErr(rc.err)
  ELSE LET m == encode_memory_operand(
                  IF mem.base # "None" /\ mem.index # "None"
                    THEN [mem EXCEPT !.scale = 1] ELSE mem, rc.val)
       IN IF ~m.ok THEN m ELSE EncOk(pre \o m.bytes, m.modrm)

\* the opcode bytes pre, then encode_memory_operand(mem, register_code(..)?)
MemForm(pre, mem, rc) ==
  IF ~rc.ok THEN EncErr(rc.err)
  ELSE LET m == encode_memory_operand(mem, rc.val)
       IN IF ~m.ok THEN m ELSE EncOk(pre \o m.bytes, m.modrm)

\* the two kinds of a pair of operands
Kinds(operands) == <<operands[1].kind, operands[2].kind>>

\* encode_mov: REX.W only when the destination of a register move is 64-bit
encode_mov(operands) ==
  IF Len(operands) # 2 THEN EncErr("MOV requires exactly 2 operands")
  ELSE LET dst == operands[1]
           src == operands[2]
           k == Kinds(operands)
       IN CASE k = <<"Register", "Immediate8">> ->
                 OpPlusReg(<<>>, \hB0, register_code_8(dst.reg), <<src.value>>)
            [] k = <<"Register", "Immediate16">> ->
                 OpPlusReg(<<>>, \hB8, register_code_16(dst.reg),
                           <<src.value % 256, (src.value \div 256) % 256>>)
            [] k = <<"Register", "Immediate32">> ->
                 OpPlusReg(<<>>, \hB8, register_code_32(dst.reg), to_le_bytes(src.value))
            [] k = <<"Register", "Immediate64">> ->
                 OpPlusReg(<<\h48>>, \hB8, register_code(dst.reg), to_le_bytes(src.value))
            [] k = <<"Register", "Register">> ->
                 ModRM((IF dst.reg \in Reg64 \cup RegExt64 THEN <<\h48>> ELSE <<>>)
                          \o <<\h89>>,
                       3, register_code(src.reg), register_code(dst.reg), <<>>)
            [] k = <<"Register", "Memory">> ->
                 MemForm(<<\h8B>>, src.mem, register_code(dst.reg))
            [] k = <<"Memory", "Register">> ->
                 MemForm(<<\h89>>, dst.mem, register_code(src.reg))
            [] OTHER -> EncErr("Unsupported MOV operands")

\* encode_add
encode_add(operands) ==
  IF Len(operands) # 2 THEN EncErr("ADD requires exactly 2 operands")
  ELSE LET dst == operands[1]
           src == operands[2]
           k == Kinds(operands)
       IN CASE k = <<"Register", "Immediate8">> ->
                 ModRM(<<\h80>>, 0, register_code(dst.reg), ValOk(0), <<src.value>>)
            [] k = <<"Register", "Immediate32">> ->
                 ModRM(<<\h81>>, 0, register_code(dst.reg), ValOk(0),
                       to_le_bytes(src.value))
            [] k = <<"Register", "Immediate64">> ->
                 ModRM(<<\h48, \h81>>, 0, register_code(dst.reg), ValOk(0),
                       to_le_bytes(src.value))
            [] k = <<"Register", "Register">> ->
                 ModRM(<<\h01>>, 3, register_code(src.reg), register_code(dst.reg), <<>>)
            [] OTHER -> EncErr("Unsupported ADD operands")

\* encode_sub
encode_sub(operands) ==
  IF Len(operands) # 2 THEN EncErr("SUB requires exactly 2 operands")
  ELSE LET dst == operands[1]
           src == operands[2]
           k == Kinds(operands)
       IN CASE k = <<"Register", "Immediate32">> ->
                 ModRM(<<\h81>>, 5, register_code(dst.reg), ValOk(0),
                       to_le_bytes(src.value))
            [] k = <<"Register", "Register">> ->
                 ModRM(<<\h29>>, 3, register_code(src.reg), register_code(dst.reg), <<>>)
            [] OTHER -> EncErr("Unsupported SUB operands")

\* encode_cmp
encode_cmp(operands) ==
  IF Len(operands) # 2 THEN EncErr("CMP requires exactly 2 operands")
  ELSE LET dst == operands[1]
           src == operands[2]
           k == Kinds(operands)
       IN CASE k = <<"Register", "Immediate8">> ->
                 ModRM(<<\h80>>, 7, register_code(dst.reg), ValOk(0), <<src.value>>)
            [] k = <<"Register", "Immediate32">> ->
                 ModRM(<<\h81>>, 7, register_code(dst.reg), ValOk(0),
                       to_le_bytes(src.value))
            [] k = <<"Register", "Register">> ->
                 ModRM(<<\h39>>, 3, register_code(src.reg), register_code(dst.reg), <<>>)
            [] OTHER -> EncErr("Unsupported CMP operands")

\* encode_jmp
encode_jmp(operands) ==
  IF Len(operands) # 1 THEN EncErr("JMP requires exactly 1 operand")
  ELSE LET op == operands[1]
       IN CASE op.kind = "Relative8" -> EncOk(<<\hEB, as_u8(op.rel)>>, <<>>)
            [] op.kind = "Relative32" -> EncOk(<<\hE9>> \o i32_to_le_bytes(op.rel), <<>>)
            [] op.kind = "Label" -> EncOk(<<\hE9, 0, 0, 0, 0>>, <<>>)
            [] OTHER -> EncErr("Unsupported JMP operand")

\* encode_call
encode_call(operands) ==
  IF Len(operands) # 1 THEN EncErr("CALL requires exactly 1 operand")
  ELSE LET op == operands[1]
       IN CASE op.kind = "Relative32" -> EncOk(<<\hE8>> \o i32_to_le_bytes(op.rel), <<>>)
            [] op.kind = "Label" -> EncOk(<<\hE8, 0, 0, 0, 0>>, <<>>)
            [] OTHER -> EncErr("Unsupported CALL operand")

\* encode_push
encode_push(operands) ==
  IF Len(operands) # 1 THEN EncErr("PUSH requires exactly 1 operand")
  ELSE LET op == operands[1]
       IN CASE op.kind = "Register" ->
                 OpPlusReg(<<>>, \h50, register_code_16(op.reg), <<>>)
            [] op.kind = "Immediate32" -> EncOk(<<\h68>> \o to_le_bytes(op.value), <<>>)
            [] op.kind = "Immediate8" -> EncOk(<<\h6A, op.value>>, <<>>)
            [] OTHER -> EncErr("Unsupported PUSH operand")

\* encode_pop
encode_pop(operands) ==
  IF Len(operands) # 1 THEN EncErr("POP requires exactly 1 operand")
  ELSE LET op == operands[1]
       IN CASE op.kind = "Register" ->
                 OpPlusReg(<<>>, \h58, register_code_16(op.reg), <<>>)
            [] OTHER -> EncErr("Unsupported POP operand")

\* encode_ret
encode_ret(operands) ==
  CASE Len(operands) = 0 -> EncOk(<<\hC3>>, <<>>)
    [] Len(operands) = 1 ->
         IF operands[1].kind = "Immediate16"
           THEN EncOk(<<\hC2>> \o to_le_bytes(<<operands[1].value>>), <<>>)
           ELSE EncErr("RET expects immediate operand")
    [] OTHER -> EncErr("RET expects 0 or 1 operands")

\* A plausible slip: no INT3 special case.
encode_int_plain(operands) ==
  IF Len(operands) # 1 THEN EncErr("INT requires exactly 1 operand")
  ELSE LET op == operands[1]
       IN CASE op.kind = "Immediate8" -> EncOk(<<\hCD, op.value>>, <<>>)
            [] OTHER -> EncErr("INT expects immediate operand")

\* encode_int
encode_int(operands) ==
  IF Len(operands) # 1 THEN EncErr("INT requires exactly 1 operand")
  ELSE LET op == operands[1]
       IN CASE op.kind = "Immediate8" ->
                 IF op.value = 3 THEN EncOk(<<\hCC>>, <<>>)
                 ELSE EncOk(<<\hCD, op.value>>, <<>>)
            [] OTHER -> EncErr("INT expects immediate operand")

\* encode_xchg
encode_xchg(operands) ==
  IF Len(operands) # 2 THEN EncErr("XCHG requires exactly 2 operands")
  ELSE LET r1 == operands[1]
           r2 == operands[2]
       IN CASE Kinds(operands) = <<"Register", "Register">> ->
                 IF r1.reg = "AX" /\ r2.reg = "AX" THEN EncOk(<<\h90>>, <<>>)
                 ELSE ModRM(<<\h87>>, 3, register_code(r2.reg), register_code(r1.reg),
                            <<>>)
            [] OTHER -> EncErr("Unsupported XCHG operands")

\* encode_lea
encode_lea(operands) ==
  IF Len(operands) # 2 THEN EncErr("LEA requires exactly 2 operands")
  ELSE CASE Kinds(operands) = <<"Register", "Memory">> ->
              MemForm(<<\h8D>>, operands[2].mem, register_code(operands[1].reg))
         [] OTHER -> EncErr("Unsupported LEA operands")

\* encode_neg / encode_not / encode_idiv and the one-operand arm of encode_imul:
\* F7 /digit on a register
Group3(operands, digit, count_error, operand_error) ==
  IF Len(operands) # 1 THEN EncErr(count_error)
  ELSE CASE operands[1].kind = "Register" ->
              ModRM(<<\hF7>>, 3, ValOk(digit), register_code(operands[1].reg), <<>>)
         [] OTHER -> EncErr(operand_error)

encode_neg(operands) ==
  Group3(operands, 3, "NEG requires exactly 1 operand", "Unsupported NEG operand")

encode_not(operands) ==
  Group3(operands, 2, "NOT requires exactly 1 operand", "Unsupported NOT operand")

encode_idiv(operands) ==
  Group3(operands, 7, "IDIV requires exactly 1 operand", "Unsupported IDIV operand")

\* encode_imul
encode_imul(operands) ==
  CASE Len(operands) = 1 ->
         Group3(operands, 5, "IMUL requires 1 or 2 operands", "Unsupported IMUL operand")
    [] Len(operands) = 2 ->
         (CASE Kinds(operands) = <<"Register", "Register">> ->
                 ModRM(<<\h0F, \hAF>>, 3, register_code(operands[1].reg),
                       register_code(operands[2].reg), <<>>)
            [] OTHER -> EncErr("Unsupported IMUL operands"))
    [] OTHER -> EncErr("IMUL requires 1 or 2 operands")

\* encode_set_instruction
encode_set_instruction(operands, opcode_offset) ==
  IF Len(operands) # 1 THEN EncErr("SET instruction requires exactly 1 operand")
  ELSE CASE operands[1].kind = "Register" ->
              ModRM(<<\h0F, opcode_offset>>, 3, ValOk(0),
                    register_code_8(operands[1].reg), <<>>)
         [] OTHER -> EncErr("SET instruction expects register operand")

\* encode_sete .. encode_setae: the second opcode byte of each SETcc
setcc_opcode ==
  [SETE |-> \h94, SETNE |-> \h95, SETL |-> \h9C, SETLE |-> \h9E, SETG |-> \h9F,
   SETGE |-> \h9D, SETB |-> \h92, SETBE |-> \h96, SETA |-> \h97, SETAE |-> \h93]

\* encode_movzx
encode_movzx(operands) ==
  IF Len(operands) # 2 THEN EncErr("MOVZX requires exactly 2 operands")
  ELSE CASE Kinds(operands) = <<"Register", "Register">> ->
              ModRM(<<\h0F, \hB6>>, 3, register_code(operands[1].reg),
                    register_code(operands[2].reg), <<>>)
         [] OTHER -> EncErr("Unsupported MOVZX operands")

\* encode_opcode: the one-byte instructions it pushes without looking at operands
one_byte_opcode ==
  [NOP |-> \h90, HLT |-> \hF4, CLC |-> \hF8, STC |-> \hF9, CLI |-> \hFA,
   STI |-> \hFB, CLD |-> \hFC, STD |-> \hFD, CMC |-> \hF5]

\* str::to_uppercase on the mnemonics the callers of this model pass
to_uppercase(mnemonic) ==
  CASE mnemonic = "mov" -> "MOV"
    [] mnemonic = "Add" -> "ADD"
    [] mnemonic = "nop" -> "NOP"
    [] OTHER -> mnemonic

\* encode_opcode
encode_opcode(mnemonic, operands) ==
  LET m == to_uppercase(mnemonic)
  IN CASE m = "MOV" -> encode_mov(operands)
       [] m = "ADD" -> encode_add(operands)
       [] m = "SUB" -> encode_sub(operands)
       [] m = "CMP" -> encode_cmp(operands)
       [] m = "JMP" -> encode_jmp(operands)
       [] m = "CALL" -> encode_call(operands)
       [] m = "PUSH" -> encode_push(operands)
       [] m = "POP" -> encode_pop(operands)
       [] m = "RET" -> encode_ret(operands)
       [] m = "INT" -> encode_int(operands)
       [] m = "XCHG" -> encode_xchg(operands)
       [] m = "LEA" -> encode_lea(operands)
       [] m \in DOMAIN one_byte_opcode -> EncOk(<<one_byte_opcode[m]>>, <<>>)
       [] m = "NEG" -> encode_neg(operands)
       [] m = "NOT" -> encode_not(operands)
       [] m = "IMUL" -> encode_imul(operands)
       [] m = "IDIV" -> encode_idiv(operands)
       [] m \in DOMAIN setcc_opcode -> encode_set_instruction(operands, setcc_opcode[m])
       [] m = "MOVZX" -> encode_movzx(operands)
       [] OTHER -> EncErr("Unknown mnemonic: " \o mnemonic)

\* encode_instruction: the prefix bytes of the flags the instruction carries
prefix_bytes(ins) ==
  (IF ins.lock_prefix THEN <<\hF0>> ELSE <<>>)
    \o (IF ins.rep_prefix THEN <<\hF3>> ELSE <<>>)
    \o (IF ins.repne_prefix THEN <<\hF2>> ELSE <<>>)
    \o (IF ins.size_prefix THEN <<\h66>> ELSE <<>>)
    \o (IF ins.address_prefix THEN <<\h67>> ELSE <<>>)

\* encode_instruction
encode_instruction(ins) ==
  LET opcode_bytes == encode_opcode(ins.mnemonic, ins.operands)
  IN IF ~opcode_bytes.ok THEN opcode_bytes
     ELSE EncOk(prefix_bytes(ins) \o opcode_bytes.bytes, opcode_bytes.modrm)

(***************************************************************************)
(* The inputs the encoder is given.                                        *)
(***************************************************************************)
Mnemonics ==
  {"MOV", "ADD", "SUB", "CMP", "JMP", "CALL", "PUSH", "POP", "RET", "INT", "XCHG",
   "LEA", "NEG", "NOT", "IMUL", "IDIV", "MOVZX"}
    \cup DOMAIN one_byte_opcode \cup DOMAIN setcc_opcode
    \cup {"mov", "Add", "nop", "FOO"}

\* the mnemonics that take two operands, given every pair with a common operand
TwoOperandMnemonics == {"MOV", "ADD", "SUB", "CMP", "XCHG", "LEA", "IMUL", "MOVZX"}

ImmLimbs == {0, 5, \h1234, \hFFFF}

ImmediateOperands ==
  {Immediate8(v) : v \in {0, 3, 5, 255}}
    \cup {Immediate16(v) : v \in {5, \h1234, \hFFFF}}
    \cup {Immediate32(<<a, b>>) : a \in ImmLimbs, b \in ImmLimbs}
    \cup {Immediate64(<<a, b, c, d>>) :
            a \in {0, \hFFFF}, b \in {0, \h89AB}, c \in {0, \h4567}, d \in ImmLimbs}

MemoryOperands ==
  {MemoryOperand("None", base, index, scale, d) :
     base \in {"None", "RBX", "RBP", "BP", "EBP", "ES"}, index \in {"None", "RSI"},
     scale \in {1, 2}, d \in {0, 127, 128, -2, -128, -129}}

RelativeOperands ==
  {Relative8(r) : r \in {0, 5, -2}} \cup {Relative16(5)}
    \cup {Relative32(r) : r \in {0, \h12345678, -2}} \cup {Label("start")}

AllOperands ==
  {OpRegister(r) : r \in Register} \cup ImmediateOperands
    \cup {OpMemory(m) : m \in MemoryOperands} \cup RelativeOperands

\* a small set with an operand of every kind
CommonOperands ==
  {OpRegister("AX"), OpRegister("EBX"), OpRegister("RCX"), OpRegister("R9"),
   OpRegister("DL"), OpRegister("ES"),
   Immediate8(3), Immediate8(5), Immediate16(\h1234), Immediate32(<<0, 5>>),
   Immediate64(<<0, 0, 0, 5>>),
   OpMemory(MemoryOperand("None", "RBX", "None", 1, 0)),
   Label("start"), Relative32(5)}

OperandLists ==
  UNION {[1..n -> CommonOperands] : n \in 0..MaxOperands}

\* every prefix flag setting of an instruction
WithPrefixes(ins) ==
  {[ins EXCEPT !.size_prefix = f[1], !.address_prefix = f[2], !.lock_prefix = f[3],
               !.rep_prefix = f[4], !.repne_prefix = f[5]] :
     f \in [1..5 -> BOOLEAN]}

\* the instructions with prefix flags set
PrefixedInstructions ==
  UNION {WithPrefixes(ins) :
           ins \in {Instruction_new("NOP", <<>>),
                    Instruction_new("MOV", <<OpRegister("EAX"), Immediate32(<<0, 5>>)>>),
                    Instruction_new("MOV", <<OpRegister("RAX"), Immediate64(<<0, 0, 0, 5>>)>>),
                    Instruction_new("ADD", <<OpRegister("RAX"), OpRegister("RBX")>>)}}

\* ins is one of the instructions the caller builds
IsInput(ins) ==
  \/ \E m \in Mnemonics, ops \in OperandLists : ins = Instruction_new(m, ops)
  \/ \E m \in Mnemonics, op \in AllOperands : ins = Instruction_new(m, <<op>>)
  \/ \E m \in TwoOperandMnemonics, a \in AllOperands, b \in CommonOperands :
       ins = Instruction_new(m, <<a, b>>)
  \/ \E m \in TwoOperandMnemonics, a \in CommonOperands, b \in AllOperands :
       ins = Instruction_new(m, <<a, b>>)
  \/ \E r \in Register, imm \in ImmediateOperands :
       ins = Instruction_new("MOV", <<OpRegister(r), imm>>)
  \/ ins \in PrefixedInstructions

ModRMArgs ==
  {[mode |-> a, reg |-> b, rm |-> c] :
     a \in 0..MaxField \cup {255}, b \in 0..MaxField \cup {255},
     c \in 0..MaxField \cup {255}}

(***************************************************************************)
(* The builders' specification: a caller picks a builder kind and builds   *)
(* on two fresh instances of it, up to MaxCalls times on each, one call at *)
(* a time; or it calls emit_bytes or emit on a fresh instance.             *)
(***************************************************************************)
NoInstr == Instruction_new("", <<>>)
NoArgs == [mode |-> 0, reg |-> 0, rm |-> 0]
NoModRM == ValErr("")
NotEncoded == [ok |-> FALSE, bytes |-> <<>>, err |-> "", modrm |-> <<>>]

\* The caller constructs two builders of the kind it drives; the buffers of the
\* kinds it does not construct are <<>>.
InitObjects ==
  /\ binary = [i \in Inst |-> IF variant \in {"general", "emit_bytes"}
                                THEN ModeTransitionEmitter_new.binary ELSE <<>>]
  /\ position = [i \in Inst |-> ModeTransitionEmitter_new.position]
  /\ flags = [i \in Inst |-> ModeTransitionEmitter_new.flags]
  /\ epc = [i \in Inst |-> Idle]
  /\ eret = [i \in Inst |-> <<>>]
  /\ code = [i \in Inst |-> IF variant \in {"compact", "emit"}
                              THEN CompactBootloader_new.code ELSE <<>>]
  /\ cpos = [i \in Inst |-> 0]
  /\ cpc = [i \in Inst |-> Idle]
  /\ cret = [i \in Inst |-> <<>>]
  /\ mcode = [i \in Inst |-> IF variant = "micro"
                               THEN MicroBootloader_new.code ELSE <<>>]
  /\ mpc = [i \in Inst |-> "idle"]
  /\ mret = [i \in Inst |-> <<>>]
  /\ written = [i \in Inst |-> <<>>]
  /\ last_emit = NoEmit
  /\ kernel = GraphicsKernel_new
  /\ loaded = <<>>
  /\ disk = NoDisk

Init ==
  /\ variant \in {"general", "compact", "micro", "emit_bytes", "emit", "kernel"}
  /\ InitObjects
  /\ instr = NoInstr
  /\ encoded = NotEncoded
  /\ modrm_args = NoArgs
  /\ modrm_ret = NoModRM

Next ==
  \/ \E bs \in Slices : call_emit_bytes(1, bs)
  \/ \E bs \in Slices : call_emit(1, bs)
  \/ \E graphics_code \in KernelInputs : call_load_graphics_code(graphics_code)
  \/ call_create_disk_image
  \/ \E i \in Inst :
    \/ create_bootloader(i)
    \/ emit_16bit_setup(i)
    \/ emit_enable_a20(i)
    \/ emit_cpuid_detection(i)
    \/ emit_enter_protected_mode(i)
    \/ emit_setup_paging(i)
    \/ emit_enter_long_mode(i)
    \/ emit_enable_simd(i)
    \/ emit_jump_to_graphics(i)
    \/ emit_nop(i)
    \/ emitter_sign(i)
    \/ emitter_return(i)
    \/ compact_create(i)
    \/ emit_16bit(i)
    \/ emit_a20(i)
    \/ emit_pmode(i)
    \/ emit_paging(i)
    \/ emit_lmode(i)
    \/ emit_sse(i)
    \/ emit_jump(i)
    \/ emit_data(i)
    \/ compact_sign(i)
    \/ compact_return(i)
    \/ micro_create(i)
    \/ micro_sign(i)
    \/ micro_return(i)

Spec == Init /\ [][Next]_vars

(***************************************************************************)
(* The encoder's specification: a caller hands one instruction to          *)
(* encode_instruction, or one triple of fields to modrm_byte.              *)
(***************************************************************************)
UnchangedBuilders ==
  /\ UNCHANGED <<variant, written, last_emit>>
  /\ UnchangedEmitter /\ UnchangedCompact /\ UnchangedMicro /\ UnchangedKernel

\* OpcodeEmitter::encode_instruction(&instr)
call_encode_instruction ==
  /\ variant = "encode_instruction"
  /\ encoded = NotEncoded
  /\ encoded' = encode_instruction(instr)
  /\ UNCHANGED <<instr, modrm_args, modrm_ret>>
  /\ UnchangedBuilders

\* OpcodeEmitter::modrm_byte(mode, reg, rm)
call_modrm_byte ==
  /\ variant = "modrm_byte"
  /\ modrm_ret = NoModRM
  /\ modrm_ret' = modrm_byte(modrm_args.mode, modrm_args.reg, modrm_args.rm)
  /\ UNCHANGED <<instr, encoded, modrm_args>>
  /\ UnchangedBuilders

InitEnc ==
  /\ variant \in {"encode_instruction", "modrm_byte"}
  /\ InitObjects
  /\ \/ variant = "encode_instruction" /\ IsInput(instr) /\ modrm_args = NoArgs
     \/ variant = "modrm_byte" /\ instr = NoInstr /\ modrm_args \in ModRMArgs
  /\ encoded = NotEncoded
  /\ modrm_ret = NoModRM

NextEnc ==
  \/ call_encode_instruction
  \/ call_modrm_byte

SpecEnc == InitEnc /\ [][NextEnc]_vars

(***************************************************************************)
(* Properties of the builders.                                             *)
(***************************************************************************)
\* every result the builders have returned so far, of any kind
Returned ==
  UNION {{eret[i][n] : n \in 1..Len(eret[i])} \cup {cret[i][n] : n \in 1..Len(cret[i])}
           \cup {mret[i][n] : n \in 1..Len(mret[i])} : i \in Inst}

\* C1: every image a builder returns successfully is exactly 512 bytes long, with
\* 0x55 at offset 510 and 0xAA at offset 511.
C1_SignedSector ==
  \A r \in Returned :
    r.ok => /\ Len(r.image) = 512
            /\ At(r.image, 510) = \h55
            /\ At(r.image, 511) = \hAA

\* C1 happens: create_bootloader returned an image.
C1_Witness == eret[1] # <<>> /\ eret[1][1].ok

\* what emit_bytes / emit must have done, given the record e of the call, the
\* buffer and the cursor it left
BudgetEffect(e, buf, pos) ==
  LET n == Len(e.bytes)
  IN IF e.p + n > 510
       THEN ~e.ok /\ buf = e.before /\ pos = e.p
       ELSE /\ e.ok
            /\ pos = e.p + n
            /\ Len(buf) = Len(e.before)
            /\ \A k \in 1..Len(buf) :
                 buf[k] = IF e.p < k /\ k <= e.p + n THEN e.bytes[k - e.p] ELSE e.before[k]

\* C2: a call of emit_bytes (or emit) at position p with n bytes is rejected when
\* p + n > 510, and then the buffer and the position are as before the call; when
\* p + n <= 510 all n bytes are written at p.. and the position is p + n; a
\* builder whose emission is rejected is back idle, having returned the error and
\* no image.
C2_BudgetEnforced ==
  last_emit.fn # "none" =>
    LET e == last_emit
        i == e.inst
    IN /\ e.fn = "emit_bytes" => BudgetEffect(e, binary[i], position[i])
       /\ e.fn = "emit" => BudgetEffect(e, code[i], cpos[i])
       /\ (variant = "general" /\ ~e.ok) =>
            /\ epc[i] = Idle
            /\ eret[i] # <<>>
            /\ eret[i][Len(eret[i])] = Err(SIZE_ERROR)
            /\ eret[i][Len(eret[i])].image = <<>>
       /\ (variant = "compact" /\ ~e.ok) =>
            /\ cpc[i] = Idle
            /\ cret[i] # <<>>
            /\ cret[i][Len(cret[i])] = Err(SIZE_ERROR)

\* C2 happens: a two-byte slice at position 509 was rejected, where a truncating
\* emit_bytes would have written one byte.
C2_Witness ==
  /\ last_emit.fn = "emit_bytes"
  /\ last_emit.p = 509
  /\ Len(last_emit.bytes) = 2
  /\ ~last_emit.ok

\* C3 (as claimed): the first create_bootloader call on a newly constructed
\* emitter returns an error.
C3_FreshBuildFails ==
  \A i \in Inst : eret[i] # <<>> => ~eret[i][1].ok

\* C4: the first builds on two fresh instances of one builder return the same
\* result, whatever was called on the other instance before.
C4_Deterministic ==
  \A i, j \in Inst :
    /\ (eret[i] # <<>> /\ eret[j] # <<>>) => eret[i][1] = eret[j][1]
    /\ (cret[i] # <<>> /\ cret[j] # <<>>) => cret[i][1] = cret[j][1]
    /\ (mret[i] # <<>> /\ mret[j] # <<>>) => mret[i][1] = mret[j][1]

\* C4 happens: both emitters have been built on, the second after the first had
\* been built on twice.
C4_Witness ==
  /\ Len(eret[1]) = 2
  /\ Len(eret[2]) >= 1

\* the place a phase of either builder has in the order the claim fixes; 0 for
\* what the claim does not order (feature probing, data, padding, signature)
ClaimedRank(phase) ==
  CASE phase \in {"emit_16bit_setup", "emit_16bit"} -> 1
    [] phase \in {"emit_enable_a20", "emit_a20"} -> 2
    [] phase \in {"emit_enter_protected_mode", "emit_pmode"} -> 3
    [] phase \in {"emit_setup_paging", "emit_paging"} -> 4
    [] phase \in {"emit_enter_long_mode", "emit_lmode"} -> 5
    [] phase \in {"emit_enable_simd", "emit_sse"} -> 6
    [] phase \in {"emit_jump_to_graphics", "emit_jump"} -> 7
    [] OTHER -> 0

\* the byte patterns that mark the steps the claim lists, in its order
phase_anchors ==
  << <<\hFA, \h31, \hC0, \h8E, \hD8>>,      \* real-mode setup: CLI, XOR AX,AX, MOV DS,AX
     <<\hE6, \h92>>,                         \* A20: OUT 0x92, AL
     <<\h0F, \h01, \h16>>,                   \* 32-bit LGDT
     <<\h66, \h83, \hC8, \h01>>,             \* OR EAX, 1 (CR0.PE)
     <<\h0F, \h22, \hC0>>,                   \* MOV CR0, EAX
     <<\hEA>>,                               \* far jump
     <<\hC7, \h05>>,                         \* page-table write
     <<\h0D, \h20, \h00, \h00, \h00>>,       \* OR EAX, CR4.PAE
     <<\h0F, \h22, \hE0>>,                   \* MOV CR4, EAX
     <<\h0F, \h22, \hD8>>,                   \* MOV CR3, EAX
     <<\h0F, \h32>>,                         \* RDMSR
     <<\h0F, \h30>>,                         \* WRMSR
     <<\h0D, \h00, \h00, \h00, \h80>>,       \* OR EAX, CR0.PG
     <<\h0F, \h22, \hC0>>,                   \* MOV CR0, EAX
     <<\h0F, \h01>>,                         \* 64-bit LGDT
     <<\hEA>>,                               \* far jump
     <<\h48, \h0F, \h22, \hE0>>,             \* SIMD: MOV CR4, RAX
     <<\hFF, \hE0>> >>                       \* payload: JMP RAX

\* the least offset >= from at which pat stands in img, or -1
FindFrom(img, pat, from) ==
  LET found == {o \in from..(Len(img) - Len(pat)) :
                  At(img, o) = pat[1] /\ SubSeq(img, o + 1, o + Len(pat)) = pat}
  IN IF found = {} THEN -1 ELSE CHOOSE o \in found : \A q \in found : o <= q

\* the patterns stand in img one after the other, from offset from on
RECURSIVE ChainFrom(_, _, _)
ChainFrom(img, pats, from) ==
  \/ pats = <<>>
  \/ /\ pats # <<>>
     /\ LET o == FindFrom(img, Head(pats), from)
        IN o >= 0 /\ ChainFrom(img, Tail(pats), o + Len(Head(pats)))

\* C5: the spans a build has written so far lie at increasing offsets in the
\* order real-mode setup, A20, protected mode, paging, long mode, SIMD, payload
\* jump (no later phase has a byte below a byte of an earlier phase), and in every
\* image returned the marking byte patterns of the steps stand one after the other
\* in the claimed order.
C5_MonotonicPhases ==
  /\ \A i \in Inst : \A a, b \in 1..Len(written[i]) :
       (a < b /\ ClaimedRank(written[i][a].phase) > 0
              /\ ClaimedRank(written[i][b].phase) > 0) =>
         /\ ClaimedRank(written[i][a].phase) < ClaimedRank(written[i][b].phase)
         /\ written[i][a].hi <= written[i][b].lo
  /\ \A r \in Returned : r.ok => ChainFrom(r.image, phase_anchors, 0)

\* C5 happens: a build of the general emitter has written all its phases and
\* returned the image.
C5_Witness ==
  /\ eret[2] # <<>>
  /\ eret[2][1].ok
  /\ Len(written[2]) >= 8
  /\ \E a \in 1..Len(written[2]) : written[2][a].phase = "emit_jump_to_graphics"

\* x86: a byte read as a signed 8-bit displacement
Rel8(b) == IF b >= 128 THEN b - 256 ELSE b

\* x86: the four bytes at offset off of img read as a signed 32-bit little-endian
\* displacement
Rel32(img, off) ==
  LET low == At(img, off) + 256 * At(img, off + 1) + 65536 * At(img, off + 2)
      top == At(img, off + 3)
  IN low + 16777216 * (IF top >= 128 THEN top - 256 ELSE top)

\* x86: where control goes from offset off of img: the target of a short jump
\* (EB rel8) standing there, else off itself
EntryTarget(img, off) ==
  IF At(img, off) = \hEB THEN off + 2 + Rel8(At(img, off + 1)) ELSE off

\* x86: the target of the near JZ (0F 84 rel32) at offset off of img when the
\* tested feature is absent
JzTarget(img, off) == off + 6 + Rel32(img, off + 2)

\* C6 (as claimed): in every image CompactBootloader::create returns, control
\* entering at byte 0 arrives at or before the first byte of each ordered phase
\* (real-mode setup, A20, protected mode, ...): the short jump at offset 0 passes
\* over no phase code.
C6_EntryJumpSkipsNoPhase ==
  \A i \in Inst :
    (cret[i] # <<>> /\ cret[i][1].ok) =>
      \A a \in 1..Len(written[i]) :
        ClaimedRank(written[i][a].phase) > 0 =>
          EntryTarget(cret[i][1].image, 0) <= written[i][a].lo

\* the offset of chunk k within the bytes a phase emits
RECURSIVE ChunkOffset(_, _)
ChunkOffset(chunks, k) ==
  IF k <= 1 THEN 0 ELSE ChunkOffset(chunks, k - 1) + Len(chunks[k - 1])

\* the chunks of emit_enable_simd that are a conditional jump, and those that are
\* XSETBV
JzChunks == {k \in 1..Len(emit_enable_simd_bytes) :
               SubSeq(emit_enable_simd_bytes[k], 1, 2) = <<\h0F, \h84>>}
XsetbvChunks == {k \in 1..Len(emit_enable_simd_bytes) :
                   emit_enable_simd_bytes[k] = <<\h48, \h0F, \h01, \hD1>>}

\* the enable block a conditional jump guards ends with the next XSETBV
BlockEndChunk(k) ==
  CHOOSE x \in XsetbvChunks : x > k /\ \A y \in XsetbvChunks : y > k => x <= y

\* C7 (as claimed): in every image create_bootloader returns, each conditional
\* jump of emit_enable_simd, taken when the feature is absent, lands at or past
\* the end of the enable block (through XSETBV) that follows it.
C7_SimdBlocksGated ==
  \A i \in Inst :
    (eret[i] # <<>> /\ eret[i][1].ok) =>
      \A a \in 1..Len(written[i]) :
        written[i][a].phase = "emit_enable_simd" =>
          \A k \in JzChunks :
            JzTarget(eret[i][1].image,
                     written[i][a].lo + ChunkOffset(emit_enable_simd_bytes, k))
              >= written[i][a].lo
                   + ChunkOffset(emit_enable_simd_bytes, BlockEndChunk(k) + 1)

(***************************************************************************)
(* Properties of the encoder.                                              *)
(***************************************************************************)
\* the instruction carries no prefix flag
NoPrefixFlags(ins) ==
  ~(ins.size_prefix \/ ins.address_prefix \/ ins.lock_prefix \/ ins.rep_prefix
      \/ ins.repne_prefix)

\* the x86 numbering of the 32-bit and the 64-bit general registers
order32 == <<"EAX", "ECX", "EDX", "EBX", "ESP", "EBP", "ESI", "EDI">>
order64 == <<"RAX", "RCX", "RDX", "RBX", "RSP", "RBP", "RSI", "RDI">>
InOrder(order, r) == \E k \in 1..Len(order) : order[k] = r

\* bytes is the little-endian writing of the value with these limbs: its bytes
\* 2j, 2j+1 (0-based) make the limb j places from the least significant one
IsLittleEndian(bytes, limbs) ==
  /\ Len(bytes) = 2 * Len(limbs)
  /\ \A j \in 0..(Len(limbs) - 1) :
       bytes[2 * j + 1] + 256 * bytes[2 * j + 2] = limbs[Len(limbs) - j]

\* C8: MOV r32, Immediate32(v) encodes as [B8 + code(r)] and v in 4 little-endian
\* bytes, MOV r64, Immediate64(v) as [48, B8 + code(r)] and v in 8 little-endian
\* bytes, for r in EAX..EDI / RAX..RDI; MOV EAX,5 = B8 05 00 00 00 and
\* MOV RAX,5 = 48 B8 05 00 00 00 00 00 00 00.
C8_MovImmediate ==
  (/\ variant = "encode_instruction"
   /\ encoded # NotEncoded
   /\ instr.mnemonic = "MOV"
   /\ NoPrefixFlags(instr)
   /\ Len(instr.operands) = 2
   /\ instr.operands[1].kind = "Register") =>
    LET r == instr.operands[1].reg
        src == instr.operands[2]
        b == encoded.bytes
    IN /\ (InOrder(order32, r) /\ src.kind = "Immediate32") =>
            /\ encoded.ok
            /\ Len(b) = 5
            /\ b[1] = \hB8 + IndexOf(order32, r) - 1
            /\ IsLittleEndian(SubSeq(b, 2, 5), src.value)
       /\ (InOrder(order64, r) /\ src.kind = "Immediate64") =>
            /\ encoded.ok
            /\ Len(b) = 10
            /\ b[1] = \h48
            /\ b[2] = \hB8 + IndexOf(order64, r) - 1
            /\ IsLittleEndian(SubSeq(b, 3, 10), src.value)
       /\ (r = "EAX" /\ src = Immediate32(<<0, 5>>)) => b = <<\hB8, 5, 0, 0, 0>>
       /\ (r = "RAX" /\ src = Immediate64(<<0, 0, 0, 5>>)) =>
            b = <<\h48, \hB8, 5, 0, 0, 0, 0, 0, 0, 0>>

\* C8 happens: MOV RDI, 0xFFFF89AB45671234 has been encoded.
C8_Witness ==
  /\ instr = Instruction_new("MOV", <<OpRegister("RDI"),
                                      Immediate64(<<\hFFFF, \h89AB, \h4567, \h1234>>)>>)
  /\ encoded.ok
  /\ encoded.bytes = <<\h48, \hBF, \h34, \h12, \h67, \h45, \hAB, \h89, \hFF, \hFF>>

\* an operand of the instruction is a 64-bit register or a 64-bit immediate
Uses64(ins) ==
  \E k \in 1..Len(ins.operands) :
    \/ /\ ins.operands[k].kind = "Register"
       /\ ins.operands[k].reg \in Reg64 \cup RegExt64
    \/ ins.operands[k].kind = "Immediate64"

\* C9 (as claimed): whenever the encoder accepts an instruction with a 64-bit
\* register operand or an Immediate64, the bytes it returns have the REX.W prefix
\* 0x48 right before the opcode, that is right after the requested legacy
\* prefixes.
C9_AutomaticRexW ==
  (variant = "encode_instruction" /\ encoded.ok /\ Uses64(instr)) =>
    LET np == Len(prefix_bytes(instr))
    IN /\ Len(encoded.bytes) > np
       /\ encoded.bytes[np + 1] = \h48

\* C10: modrm_byte(mode, reg, rm) is an error when mode > 3 or reg > 7 or rm > 7
\* and else (mode << 6) | (reg << 3) | rm; every ModRM byte in the bytes
\* encode_instruction returns was computed from fields within these ranges.
C10_ModRMValid ==
  /\ (variant = "modrm_byte" /\ modrm_ret # NoModRM) =>
       IF modrm_args.mode > 3 \/ modrm_args.reg > 7 \/ modrm_args.rm > 7
         THEN ~modrm_ret.ok
         ELSE /\ modrm_ret.ok
              /\ modrm_ret.val = 64 * modrm_args.mode + 8 * modrm_args.reg + modrm_args.rm
  /\ (variant = "encode_instruction" /\ encoded.ok) =>
       \A k \in 1..Len(encoded.modrm) :
         LET c == encoded.modrm[k]
         IN /\ c.mode \in 0..3 /\ c.reg \in 0..7 /\ c.rm \in 0..7
            /\ c.byte = 64 * c.mode + 8 * c.reg + c.rm
            /\ \E j \in 1..Len(encoded.bytes) : encoded.bytes[j] = c.byte

\* C10 happens: SUB EBX, 5 asked modrm_byte for mode 5 and was refused.
C10_Witness ==
  /\ instr = Instruction_new("SUB", <<OpRegister("EBX"), Immediate32(<<0, 5>>)>>)
  /\ encoded # NotEncoded
  /\ ~encoded.ok
  /\ encoded.err = "Invalid ModR/M fields"

\* the operand counts each mnemonic of the closed set accepts
AcceptedCounts(m) ==
  CASE m \in {"MOV", "ADD", "SUB", "CMP", "XCHG", "LEA", "MOVZX"} -> {2}
    [] m \in {"JMP", "CALL", "PUSH", "POP", "INT", "NEG", "NOT", "IDIV"} -> {1}
    [] m \in {"SETE", "SETNE", "SETL", "SETLE", "SETG", "SETGE", "SETB", "SETBE",
              "SETA", "SETAE"} -> {1}
    [] m = "RET" -> {0, 1}
    [] m = "IMUL" -> {1, 2}
    [] m \in {"NOP", "HLT", "CLI", "STI", "CLD", "STD", "CLC", "STC", "CMC"} -> {0}
    [] OTHER -> {}

\* C11 (as claimed): encode_instruction returns an error and no bytes whenever
\* the number of operands is not one the mnemonic accepts (the no-operand
\* mnemonics given operands included) and whenever the mnemonic is unknown.
C11_WrongOperandCountIsError ==
  (variant = "encode_instruction" /\ encoded # NotEncoded) =>
    (Len(instr.operands) \notin AcceptedCounts(to_uppercase(instr.mnemonic)) =>
       ~encoded.ok /\ encoded.bytes = <<>>)

\* the x86 numbering of the other register families
order8 == <<"AL", "CL", "DL", "BL", "AH", "CH", "DH", "BH">>
order16 == <<"AX", "CX", "DX", "BX", "SP", "BP", "SI", "DI">>
orderExt64 == <<"R8", "R9", "R10", "R11", "R12", "R13", "R14", "R15">>
orderExt32 == <<"R8D", "R9D", "R10D", "R11D", "R12D", "R13D", "R14D", "R15D">>
orderExt16 == <<"R8W", "R9W", "R10W", "R11W", "R12W", "R13W", "R14W", "R15W">>
orderExt8 == <<"R8B", "R9B", "R10B", "R11B", "R12B", "R13B", "R14B", "R15B">>
GeneralOrders ==
  {order8, order16, order32, order64, orderExt64, orderExt32, orderExt16, orderExt8}
IsGeneral(r) == \E o \in GeneralOrders : InOrder(o, r)

\* the place (0..7) of a general-purpose register within its family: registers
\* that name one architectural register at different widths have the same place
ArchCode(r) == IndexOf(CHOOSE o \in GeneralOrders : InOrder(o, r), r) - 1

\* C12: register_code gives every general-purpose register a code in 0..7, the
\* same for the registers that name one architectural register at different
\* widths, and gives a segment register an error -- seen in PUSH r, which encodes
\* as the one byte 0x50 + register_code(r).
C12_RegisterCodes ==
  (/\ variant = "encode_instruction"
   /\ encoded # NotEncoded
   /\ instr.mnemonic = "PUSH"
   /\ NoPrefixFlags(instr)
   /\ Len(instr.operands) = 1
   /\ instr.operands[1].kind = "Register") =>
    LET r == instr.operands[1].reg
    IN IF IsGeneral(r)
         THEN /\ encoded.ok
              /\ Len(encoded.bytes) = 1
              /\ encoded.bytes[1] - \h50 \in 0..7
              /\ encoded.bytes[1] - \h50 = ArchCode(r)
         ELSE /\ r \in {"ES", "CS", "SS", "DS", "FS", "GS"}
              /\ ~encoded.ok
              /\ encoded.bytes = <<>>

\* C12 happens: PUSH R15W has been encoded, with code 7.
C12_Witness ==
  /\ instr = Instruction_new("PUSH", <<OpRegister("R15W")>>)
  /\ encoded.ok
  /\ encoded.bytes = <<\h57>>

\* the ModRM byte of the fields, as x86 lays them out
ModRMOf(mod, reg, rm) == 64 * mod + 8 * reg + rm

\* C13: INT 3 encodes as CC and INT n (n # 3) as CD n; XCHG AX,AX as 90; IMUL r as
\* F7 with ModRM(3, 5, code(r)); IMUL dst,src as 0F AF with
\* ModRM(3, code(dst), code(src)).
C13_SpecialCases ==
  (variant = "encode_instruction" /\ encoded # NotEncoded /\ NoPrefixFlags(instr)) =>
    LET ops == instr.operands
        b == encoded.bytes
    IN /\ (instr.mnemonic = "INT" /\ Len(ops) = 1 /\ ops[1].kind = "Immediate8") =>
            /\ encoded.ok
            /\ b = IF ops[1].value = 3 THEN <<\hCC>> ELSE <<\hCD, ops[1].value>>
       /\ instr = Instruction_new("XCHG", <<OpRegister("AX"), OpRegister("AX")>>) =>
            encoded.ok /\ b = <<\h90>>
       /\ (/\ instr.mnemonic = "IMUL" /\ Len(ops) = 1 /\ ops[1].kind = "Register"
           /\ IsGeneral(ops[1].reg)) =>
            /\ encoded.ok
            /\ b = <<\hF7, ModRMOf(3, 5, ArchCode(ops[1].reg))>>
       /\ (/\ instr.mnemonic = "IMUL" /\ Len(ops) = 2 /\ ops[1].kind = "Register"
           /\ ops[2].kind = "Register" /\ IsGeneral(ops[1].reg)
           /\ IsGeneral(ops[2].reg)) =>
            /\ encoded.ok
            /\ b = <<\h0F, \hAF, ModRMOf(3, ArchCode(ops[1].reg), ArchCode(ops[2].reg))>>

\* C13 happens: INT 3 has been encoded as the single byte CC.
C13_Witness ==
  /\ instr = Instruction_new("INT", <<Immediate8(3)>>)
  /\ encoded.ok
  /\ encoded.bytes = <<\hCC>>

(***************************************************************************)
(* Further properties of the builders.                                     *)
(***************************************************************************)
\* the offset after the last byte of code or data a build wrote, by its span log
ContentEnd(log) ==
  LET ends == {log[a].hi : a \in {x \in 1..Len(log) :
                                    log[x].phase \notin {"pad", "signature"}}}
  IN IF ends = {} THEN 0 ELSE CHOOSE e \in ends : \A f \in ends : f <= e

\* every byte of img from offset from up to and including 509 is NOP
NopsUpTo509(img, from) == \A o \in from..509 : At(img, o) = \h90

\* the span log of instance i is that of a finished build
LogComplete(i) ==
  written[i] # <<>> /\ written[i][Len(written[i])].phase = "signature"

\* C14 (as claimed): in every image built successfully, by any of the three
\* builders, the bytes from the end of the emitted code and data up to offset 509
\* are all 0x90; and create_bootloader writes the signature with its position at
\* 510.
C14_PaddedWithNops ==
  \A i \in Inst :
    /\ (eret[i] # <<>> /\ eret[i][1].ok /\ LogComplete(i)) =>
         NopsUpTo509(eret[i][1].image, ContentEnd(written[i]))
    /\ (cret[i] # <<>> /\ cret[i][1].ok /\ LogComplete(i)) =>
         NopsUpTo509(cret[i][1].image, ContentEnd(written[i]))
    /\ (mret[i] # <<>> /\ mret[i][1].ok) =>
         NopsUpTo509(mret[i][1].image, Len(boot_code))
    /\ (variant = "general" /\ LogComplete(i)) => position[i] = 510

\* x86: the offsets of img at which an LGDT with a 16-bit absolute address stands
\* (0F 01 /2 with ModRM 16 or 15)
LgdtOffsets(img) ==
  {o \in 0..505 : /\ At(img, o) = \h0F
                  /\ At(img, o + 1) = \h01
                  /\ At(img, o + 2) \in {\h16, \h15}}

\* the address operand of the LGDT at offset o
LgdtOperand(img, o) == At(img, o + 3) + 256 * At(img, o + 4)

\* a {limit, base} pointer stands at offset p of img, with limit 23 and the base
\* the load address of offset p + 6, where a null descriptor stands
GdtPointerAt(img, p) ==
  /\ At(img, p) = 23 /\ At(img, p + 1) = 0
  /\ At(img, p + 2) + 256 * At(img, p + 3) = \h7C00 + p + 6
  /\ At(img, p + 4) = 0 /\ At(img, p + 5) = 0
  /\ \A o \in (p + 6)..(p + 13) : At(img, o) = 0

\* C15 (as claimed): in every built image the address operand of each LGDT is
\* 0x7C00 plus the offset of a {limit, base} pointer written in the image, whose
\* limit is 23 and whose base is 0x7C00 plus the offset of the table's null
\* descriptor.
C15_DescriptorTablesInlined ==
  \A r \in Returned :
    r.ok => \A o \in LgdtOffsets(r.image) :
              \E p \in 0..480 : /\ LgdtOperand(r.image, o) = \h7C00 + p
                                /\ GdtPointerAt(r.image, p)

(***************************************************************************)
(* Further properties of the encoder.                                      *)
(***************************************************************************)
\* the /digit opcode extension of the group-1 instructions
Group1Digit(m) == CASE m = "ADD" -> 0 [] m = "SUB" -> 5 [] m = "CMP" -> 7

\* C16 (as claimed): for every general-purpose register r, ADD r,imm8/imm32,
\* SUB r,imm32 and CMP r,imm8/imm32 encode as 80 (imm8) or 81 (imm32), then
\* ModRM(3, /0 | /5 | /7, code(r)), then the immediate in little-endian bytes.
C16_Group1Immediate ==
  (/\ variant = "encode_instruction"
   /\ encoded # NotEncoded
   /\ NoPrefixFlags(instr)
   /\ instr.mnemonic \in {"ADD", "SUB", "CMP"}
   /\ Len(instr.operands) = 2
   /\ instr.operands[1].kind = "Register"
   /\ IsGeneral(instr.operands[1].reg)
   /\ \/ instr.operands[2].kind = "Immediate32"
      \/ instr.operands[2].kind = "Immediate8" /\ instr.mnemonic # "SUB") =>
    LET r == instr.operands[1].reg
        imm == instr.operands[2]
        b == encoded.bytes
        n == IF imm.kind = "Immediate8" THEN 1 ELSE 4
    IN /\ encoded.ok
       /\ Len(b) = 2 + n
       /\ b[1] = IF imm.kind = "Immediate8" THEN \h80 ELSE \h81
       /\ b[2] = ModRMOf(3, Group1Digit(instr.mnemonic), ArchCode(r))
       /\ IF imm.kind = "Immediate8" THEN b[3] = imm.value
          ELSE IsLittleEndian(SubSeq(b, 3, 6), imm.value)

\* the mod field the base-only form takes for displacement d
BaseOnlyMod(base, d) ==
  IF d = 0 /\ base \notin {"BP", "RBP"} THEN 0
  ELSE IF d \in -128..127 THEN 1 ELSE 2

\* bytes is the displacement d as the mod field lays it out: nothing for mod 0,
\* one signed byte for mod 1, four little-endian bytes for mod 2
IsDisplacement(bytes, mod, d) ==
  CASE mod = 0 -> bytes = <<>>
    [] mod = 1 -> Len(bytes) = 1 /\ Rel8(bytes[1]) = d
    [] mod = 2 -> Len(bytes) = 4 /\ Rel32(bytes, 0) = d

\* C17: for a memory operand with a base and no index, encode_memory_operand
\* emits ModRM with rm = code(base) and mod 0 (no displacement bytes) when the
\* displacement is 0 and the base is not BP or RBP, mod 1 and one byte when it is
\* in -128..127, else mod 2 and four little-endian bytes -- seen in
\* MOV r, [base + d] = 8B, ModRM(mod, code(r), code(base)), displacement.
C17_BaseOnlyMemory ==
  (/\ variant = "encode_instruction"
   /\ encoded # NotEncoded
   /\ NoPrefixFlags(instr)
   /\ instr.mnemonic = "MOV"
   /\ Len(instr.operands) = 2
   /\ instr.operands[1].kind = "Register"
   /\ IsGeneral(instr.operands[1].reg)
   /\ instr.operands[2].kind = "Memory"
   /\ instr.operands[2].mem.index = "None"
   /\ instr.operands[2].mem.base # "None"
   /\ IsGeneral(instr.operands[2].mem.base)) =>
    LET m == instr.operands[2].mem
        mod == BaseOnlyMod(m.base, m.displacement)
        b == encoded.bytes
    IN /\ encoded.ok
       /\ Len(b) >= 2
       /\ b[1] = \h8B
       /\ b[2] = ModRMOf(mod, ArchCode(instr.operands[1].reg), ArchCode(m.base))
       /\ IsDisplacement(SubSeq(b, 3, Len(b)), mod, m.displacement)

\* C17 happens: MOV RCX, [RBP + 0] has been encoded with mod 1 and a zero byte.
C17_Witness ==
  /\ instr = Instruction_new("MOV", <<OpRegister("RCX"),
                OpMemory(MemoryOperand("None", "RBP", "None", 1, 0))>>)
  /\ encoded.ok
  /\ encoded.bytes = <<\h8B, \h4D, 0>>

\* the mod field the base+index form takes for displacement d
BaseIndexMod(d) == IF d = 0 THEN 0 ELSE IF d \in -128..127 THEN 1 ELSE 2

\* C18 (as claimed): for a memory operand with base, index and scale 1 the bytes
\* after the opcode are ModRM with rm = 4, then the SIB byte
\* (0 << 6) | (code(index) << 3) | code(base), then the displacement: none for
\* mod 0, one byte for mod 1, four bytes for mod 2 -- seen in
\* MOV r, [base + index + d].
C18_BaseIndexMemory ==
  (/\ variant = "encode_instruction"
   /\ encoded # NotEncoded
   /\ NoPrefixFlags(instr)
   /\ instr.mnemonic = "MOV"
   /\ Len(instr.operands) = 2
   /\ instr.operands[1].kind = "Register"
   /\ IsGeneral(instr.operands[1].reg)
   /\ instr.operands[2].kind = "Memory"
   /\ instr.operands[2].mem.scale = 1
   /\ instr.operands[2].mem.index # "None"
   /\ instr.operands[2].mem.base # "None"
   /\ IsGeneral(instr.operands[2].mem.index)
   /\ IsGeneral(instr.operands[2].mem.base)) =>
    LET m == instr.operands[2].mem
        mod == BaseIndexMod(m.displacement)
        b == encoded.bytes
    IN /\ encoded.ok
       /\ Len(b) >= 3
       /\ b[1] = \h8B
       /\ b[2] = ModRMOf(mod, ArchCode(instr.operands[1].reg), 4)
       /\ b[3] = 8 * ArchCode(m.index) + ArchCode(m.base)
       /\ IsDisplacement(SubSeq(b, 4, Len(b)), mod, m.displacement)

\* the instruction hands a memory operand to encode_memory_operand: MOV r,[m],
\* MOV [m],r or LEA r,[m] with an encodable register
MemoryOperandOf(ins) ==
  IF Len(ins.operands) # 2 THEN {}
  ELSE LET a == ins.operands[1]
           b == ins.operands[2]
       IN IF /\ ins.mnemonic \in {"MOV", "LEA"} /\ a.kind = "Register"
             /\ b.kind = "Memory" /\ IsGeneral(a.reg) THEN {b.mem}
          ELSE IF /\ ins.mnemonic = "MOV" /\ a.kind = "Memory"
                  /\ b.kind = "Register" /\ IsGeneral(b.reg) THEN {a.mem}
          ELSE {}

\* a memory operand of a shape the encoder does not support
UnsupportedMemory(m) ==
  \/ m.base = "None"
  \/ m.base # "None" /\ m.index # "None" /\ m.scale # 1

\* C19: when the memory operand has neither base nor index, an index without a
\* base, or base and index with a scale other than 1, encode_memory_operand
\* returns an error and the instruction yields no bytes.
C19_UnsupportedMemoryRejected ==
  (variant = "encode_instruction" /\ encoded # NotEncoded) =>
    \A m \in MemoryOperandOf(instr) :
      UnsupportedMemory(m) =>
        /\ ~encoded.ok
        /\ encoded.bytes = <<>>
        /\ encoded.err = "Unsupported memory addressing mode"

\* C19 happens: MOV RCX, [RBX + RSI*2] has been refused.
C19_Witness ==
  /\ instr = Instruction_new("MOV", <<OpRegister("RCX"),
                OpMemory(MemoryOperand("None", "RBX", "RSI", 2, 0))>>)
  /\ encoded # NotEncoded
  /\ ~encoded.ok
  /\ encoded.err = "Unsupported memory addressing mode"

\* the legacy register with the 3-bit code and the width of an extended register
LegacyOf(r) ==
  CASE InOrder(orderExt64, r) -> order64[IndexOf(orderExt64, r)]
    [] InOrder(orderExt32, r) -> order32[IndexOf(orderExt32, r)]
    [] InOrder(orderExt16, r) -> order16[IndexOf(orderExt16, r)]
    [] InOrder(orderExt8, r) -> order8[IndexOf(orderExt8, r)]
    [] OTHER -> r

\* the instruction with every extended register operand replaced by its legacy one
WithLegacyRegisters(ins) ==
  [ins EXCEPT !.operands =
     [k \in 1..Len(ins.operands) |->
        IF ins.operands[k].kind = "Register"
          THEN OpRegister(LegacyOf(ins.operands[k].reg))
          ELSE ins.operands[k]]]

\* a register operand of the instruction is R8..R15 or one of their narrower forms
UsesExtended(ins) ==
  \E k \in 1..Len(ins.operands) :
    /\ ins.operands[k].kind = "Register"
    /\ LegacyOf(ins.operands[k].reg) # ins.operands[k].reg

\* C20 (as claimed): an accepted instruction with an extended register operand
\* encodes to bytes different from those of the same instruction with the legacy
\* register of the same 3-bit code.
C20_ExtendedDistinct ==
  (variant = "encode_instruction" /\ encoded.ok /\ UsesExtended(instr)) =>
    encoded.bytes # encode_instruction(WithLegacyRegisters(instr)).bytes

\* the offset at which the first span of one of these phases starts in a span
\* log, or -1
SpanLo(log, phases) ==
  LET s == {a \in 1..Len(log) : log[a].phase \in phases}
  IN IF s = {} THEN -1 ELSE log[CHOOSE a \in s : \A b \in s : a <= b].lo

\* pat stands in img at offset o
StandsAt(img, o, pat) ==
  o >= 0 /\ o + Len(pat) <= Len(img) /\ SubSeq(img, o + 1, o + Len(pat)) = pat

\* the images built so far, each with the offset at which its real-mode setup
\* starts: that of the phase's span for the two sequencers, 0 for the Micro array
RealModeEntries ==
  UNION {(IF eret[i] # <<>> /\ eret[i][1].ok /\ LogComplete(i)
            THEN {<<eret[i][1].image, SpanLo(written[i], {"emit_16bit_setup"})>>}
            ELSE {})
         \cup (IF cret[i] # <<>> /\ cret[i][1].ok /\ LogComplete(i)
                 THEN {<<cret[i][1].image, SpanLo(written[i], {"emit_16bit"})>>}
                 ELSE {})
         \cup (IF mret[i] # <<>> THEN {<<mret[i][1].image, 0>>} ELSE {}) : i \in Inst}

\* CLI; XOR AX,AX; MOV DS,AX; MOV ES,AX; MOV SS,AX; MOV SP,0x7C00; STI; CLD
real_mode_with_sti ==
  <<\hFA, \h31, \hC0, \h8E, \hD8, \h8E, \hC0, \h8E, \hD0, \hBC, \h00, \h7C, \hFB, \hFC>>

\* the same without STI
real_mode_without_sti ==
  <<\hFA, \h31, \hC0, \h8E, \hD8, \h8E, \hC0, \h8E, \hD0, \hBC, \h00, \h7C, \hFC>>

\* C21 (as claimed): in every built image the real-mode setup is CLI, the zeroing
\* of AX and the loads of DS, ES and SS, MOV SP,0x7C00, STI, CLD, in this order.
C21_RealModeWithSti ==
  \A e \in RealModeEntries : StandsAt(e[1], e[2], real_mode_with_sti)

\* C21 (amended): in every built image the real-mode setup is CLI, the zeroing of
\* AX and the loads of DS, ES and SS, MOV SP,0x7C00 and CLD, in this order, CLD
\* directly after MOV SP: no STI is emitted and interrupts stay disabled.
C21_RealModeSetup ==
  \A e \in RealModeEntries :
    /\ StandsAt(e[1], e[2], real_mode_without_sti)
    /\ \A o \in e[2]..(e[2] + 12) : At(e[1], o) # \hFB

\* C21 happens: the Compact sequencer returned an image whose real-mode setup
\* starts behind the entry jump.
C21_Witness ==
  /\ cret[1] # <<>> /\ cret[1][1].ok /\ LogComplete(1)
  /\ SpanLo(written[1], {"emit_16bit"}) = 2

\* x86: descriptor k of a descriptor table, and its fields
Descriptor(t, k) == SubSeq(t, 8 * k + 1, 8 * k + 8)
AccessByte(d) == d[6]
FlagsByte(d) == d[7]
BaseIsZero(d) == d[3] = 0 /\ d[4] = 0 /\ d[5] = 0 /\ d[8] = 0
LimitOf(d) == d[1] + 256 * d[2] + 65536 * (d[7] % 16)

\* descriptor 0 null, descriptor 1 code (0x9A), descriptor 2 data (0x92)
NullCodeData(t) ==
  /\ Len(t) = 24
  /\ Descriptor(t, 0) = Zeros(8)
  /\ AccessByte(Descriptor(t, 1)) = \h9A
  /\ AccessByte(Descriptor(t, 2)) = \h92

\* code and data: base 0, limit 0xFFFFF, granularity bit (0x80) set
Flat32(t) ==
  \A k \in {1, 2} :
    /\ BaseIsZero(Descriptor(t, k))
    /\ LimitOf(Descriptor(t, k)) = 1048575
    /\ FlagsByte(Descriptor(t, k)) \div 128 = 1

\* the code descriptor has the L bit (0x20 of the flags byte)
Long64(t) == (FlagsByte(Descriptor(t, 1)) \div 32) % 2 = 1

\* the offsets of img at which a {limit 23, base 0x7C..} pointer stands; the
\* table follows it
GdtPointers(img) ==
  {p \in 0..(Len(img) - 30) :
     /\ At(img, p) = 23 /\ At(img, p + 1) = 0
     /\ At(img, p + 3) = \h7C /\ At(img, p + 4) = 0 /\ At(img, p + 5) = 0}
TableAt(img, p) == SubSeq(img, p + 7, p + 30)

\* x86: the offsets of the far jumps (EA offset32 selector16) of img, and the
\* selector of the one at o
FarJumps(img) == {o \in 0..(Len(img) - 7) : At(img, o) = \hEA /\ At(img, o + 6) = 0}
FarJumpSelector(img, o) == At(img, o + 5) + 256 * At(img, o + 6)

\* x86: the offsets of img at which MOV AX,imm16 (66 B8) is followed by
\* MOV DS,AX (8E D8), and the immediate loaded there
SelectorLoads(img) ==
  {o \in 0..(Len(img) - 6) : StandsAt(img, o, <<\h66, \hB8>>)
                               /\ StandsAt(img, o + 4, <<\h8E, \hD8>>)}
LoadedSelector(img, o) == At(img, o + 2) + 256 * At(img, o + 3)

\* the descriptor tables of a built image are laid out as claimed: the first is the
\* 32-bit one, the others 64-bit
ImageGdtsOk(img) ==
  LET ps == GdtPointers(img)
  IN \A p \in ps :
       /\ NullCodeData(TableAt(img, p))
       /\ IF \A q \in ps : p <= q THEN Flat32(TableAt(img, p))
                                  ELSE Long64(TableAt(img, p))

\* C22 (as claimed): in every GDT the code builds (generate_gdt_tables, the data
\* of the Compact image, the Micro array) descriptor 0 is zero, descriptor 1 has
\* access 0x9A and descriptor 2 access 0x92; the 32-bit descriptors have base 0,
\* limit 0xFFFFF and 4KB granularity, the 64-bit code descriptor has the L bit;
\* every far jump of an image uses selector 0x08 and every data selector loaded
\* through AX is 0x10.
C22_GdtLayout ==
  /\ NullCodeData(generate_gdt_tables[1]) /\ Flat32(generate_gdt_tables[1])
  /\ NullCodeData(generate_gdt_tables[2]) /\ Long64(generate_gdt_tables[2])
  /\ \A r \in Returned :
       r.ok => /\ ImageGdtsOk(r.image)
               /\ \A o \in FarJumps(r.image) : FarJumpSelector(r.image, o) = \h08
               /\ \A o \in SelectorLoads(r.image) : LoadedSelector(r.image, o) = \h10

(***************************************************************************)
(* What the emitted paging code does to memory when the processor runs it. *)
(***************************************************************************)
\* x86: the four bytes at offset o of img as an unsigned little-endian value
\* (below 2^31 here)
Imm32(img, o) ==
  At(img, o) + 256 * At(img, o + 1) + 65536 * At(img, o + 2) + 16777216 * At(img, o + 3)

\* A run of dword writes: count dwords from base on, stride bytes apart, the k-th
\* holding v0 + k * dv. REP STOSD and a single store are such runs.
Run(base, stride, count, v0, dv) ==
  [base |-> base, stride |-> stride, count |-> count, v0 |-> v0, dv |-> dv]
Covers(f, a) ==
  a >= f.base /\ (a - f.base) % f.stride = 0 /\ (a - f.base) \div f.stride < f.count

\* the dword at address a after the writes w, in their order; -1 where no write
\* reached (whatever the memory held before)
Dword(w, a) ==
  LET hits == {k \in 1..Len(w) : Covers(w[k], a)}
  IN IF hits = {} THEN -1
     ELSE LET k == CHOOSE x \in hits : \A y \in hits : y <= x
          IN w[k].v0 + ((a - w[k].base) \div w[k].stride) * w[k].dv

\* the registers and writes before the first instruction
CpuStart == [eax |-> -1, ecx |-> -1, edi |-> -1, cr3 |-> -1, w |-> <<>>,
             loop |-> [eax |-> 0, ecx |-> 0, edi |-> 0, n |-> 0]]

\* x86, 32-bit protected mode: the instructions of the paging code from offset ip
\* of img on, up to the load of CR3. A LOOP runs the body from the loop start the
\* source records (the MOV [EDI],EAX) ECX times in all; the value read from CR4 is
\* taken as 0.
RECURSIVE RunPaging(_, _, _)
RunPaging(img, ip, s) ==
  LET b0 == At(img, ip)
      b1 == At(img, ip + 1)
      b2 == At(img, ip + 2)
  IN CASE b0 = \hBF -> RunPaging(img, ip + 5, [s EXCEPT !.edi = Imm32(img, ip + 1)])
       [] b0 = \hB9 -> RunPaging(img, ip + 5, [s EXCEPT !.ecx = Imm32(img, ip + 1)])
       [] b0 = \hB8 -> RunPaging(img, ip + 5, [s EXCEPT !.eax = Imm32(img, ip + 1)])
       [] b0 = \h0D ->
            RunPaging(img, ip + 5, [s EXCEPT !.eax = BitOr(@, Imm32(img, ip + 1))])
       [] b0 = \h31 /\ b1 = \hC0 -> RunPaging(img, ip + 2, [s EXCEPT !.eax = 0])
       [] b0 = \hF3 /\ b1 = \hAB ->
            RunPaging(img, ip + 2,
                      [s EXCEPT !.w = Append(@, Run(s.edi, 4, s.ecx, s.eax, 0)),
                                !.edi = @ + 4 * s.ecx,
                                !.ecx = 0])
       [] b0 = \hC7 /\ b1 = \h05 ->
            RunPaging(img, ip + 10,
                      [s EXCEPT !.w = Append(@, Run(Imm32(img, ip + 2), 4, 1,
                                                    Imm32(img, ip + 6), 0))])
       [] b0 = \h89 /\ b1 = \h07 ->
            RunPaging(img, ip + 2,
                      [s EXCEPT !.w = Append(@, Run(s.edi, 4, 1, s.eax, 0)),
                                !.loop = [eax |-> s.eax, ecx |-> s.ecx,
                                          edi |-> s.edi, n |-> Len(s.w) + 1]])
       [] b0 = \h83 /\ b1 = \hC0 -> RunPaging(img, ip + 3, [s EXCEPT !.eax = @ + b2])
       [] b0 = \h83 /\ b1 = \hC7 -> RunPaging(img, ip + 3, [s EXCEPT !.edi = @ + b2])
       [] b0 = \hE2 ->
            LET l == s.loop
                stride == s.edi - l.edi
                dv == s.eax - l.eax
            IN RunPaging(img, ip + 2,
                         [s EXCEPT !.w = [@ EXCEPT ![l.n] =
                                            Run(l.edi, stride, l.ecx, l.eax, dv)],
                                   !.eax = l.eax + l.ecx * dv,
                                   !.edi = l.edi + l.ecx * stride,
                                   !.ecx = 0])
       [] b0 = \h0F /\ b1 = \h20 /\ b2 = \hE0 ->
            RunPaging(img, ip + 3, [s EXCEPT !.eax = 0])
       [] b0 = \h0F /\ b1 = \h22 /\ b2 = \hE0 -> RunPaging(img, ip + 3, s)
       [] b0 = \h0F /\ b1 = \h22 /\ b2 = \hD8 -> [s EXCEPT !.cr3 = s.eax]
       [] OTHER -> s

\* the paging code of a built image starts with MOV EDI,0x1000; MOV ECX,..
PagingStart(img) == FindFrom(img, <<\hBF, \h00, \h10, \h00, \h00, \hB9>>, 0)

\* memory and CR3 after the paging code of img has run
PagingResult(img) == RunPaging(img, PagingStart(img), CpuStart)

\* the 4096 bytes of the table at base t lie in the region the first write of the
\* phase (REP STOSD with EAX = 0) zeroed
InZeroed(w, t) ==
  /\ w # <<>>
  /\ w[1].v0 = 0 /\ w[1].dv = 0 /\ w[1].stride = 4
  /\ w[1].base <= t
  /\ t + 4096 <= w[1].base + 4 * w[1].count

\* x86: fields of the low dword of a 64-bit paging entry
PresentWritable(lo) == lo >= 0 /\ lo % 4 = 3
PageSize(lo) == (lo \div 128) % 2 = 1
FrameOf(lo) == lo - (lo % 4096)

\* The hierarchy rooted in the table at base t of the given level (4 = PML4,
\* 3 = PDPT, 2 = PD, 1 = PT) is as claimed: the table lies in the zeroed region;
\* entry 0 of a table above the last level is present and writable and holds
\* either the base of the next table or, with the page-size bit, a large page at
\* physical 0; entry i of a page table maps the 4KB page at i * 0x1000.
RECURSIVE HierarchyOk(_, _, _)
HierarchyOk(w, t, level) ==
  /\ InZeroed(w, t)
  /\ IF level = 1
       THEN \A i \in 0..511 :
              /\ PresentWritable(Dword(w, t + 8 * i))
              /\ FrameOf(Dword(w, t + 8 * i)) = i * 4096
              /\ Dword(w, t + 8 * i + 4) = 0
       ELSE LET lo == Dword(w, t)
            IN /\ PresentWritable(lo)
               /\ Dword(w, t + 4) = 0
               /\ IF level \in {2, 3} /\ PageSize(lo)
                    THEN FrameOf(lo) = 0
                    ELSE HierarchyOk(w, FrameOf(lo), level - 1)

\* C23 (as claimed): after the memory writes of the paging code of every built
\* image, PML4[0], PDPT[0] (and PD[0] in the 4-level form) hold the base of the
\* next table with present and writable set, the leaf entries identity-map the
\* first 2MB (page-table entry i = i * 0x1000 with present and writable, or a
\* large page at physical 0), and every table lies in the region zeroed at the
\* start of the phase; CR3 holds the PML4 base.
C23_PageTables ==
  \A r \in Returned :
    r.ok => LET m == PagingResult(r.image)
            IN m.cr3 >= 0 /\ HierarchyOk(m.w, m.cr3, 4)

\* x86: the offsets of img at which RDMSR (0F 32) stands
RdmsrOffsets(img) == {o \in 5..(Len(img) - 16) : StandsAt(img, o, <<\h0F, \h32>>)}

\* x86: MOV ECX,0xC0000080, the selection of the EFER MSR
mov_ecx_efer == <<\hB9, \h80, \h00, \h00, \hC0>>

\* C24 (as claimed): in every built image an RDMSR stands, the instruction
\* directly before each RDMSR is MOV ECX,0xC0000080, OR EAX,0x100 and WRMSR follow
\* it directly, and the OR EAX,0x80000000 that sets CR0.PG stands after them.
C24_EferSelected ==
  \A r \in Returned :
    r.ok => /\ RdmsrOffsets(r.image) # {}
            /\ \A o \in RdmsrOffsets(r.image) :
                 /\ StandsAt(r.image, o - 5, mov_ecx_efer)
                 /\ StandsAt(r.image, o + 2, <<\h0D, \h00, \h01, \h00, \h00, \h0F, \h30>>)
                 /\ FindFrom(r.image, <<\h0D, \h00, \h00, \h00, \h80>>, o + 9) >= 0

\* the bit positions set in a little-endian value given by its bytes
BitsOfBytes(bytes) ==
  {8 * (j - 1) + b : j \in 1..Len(bytes), b \in 0..7} \cap
  {n \in 0..(8 * Len(bytes) - 1) : (bytes[(n \div 8) + 1] \div (2 ^ (n % 8))) % 2 = 1}

\* x86: a chunk is TEST r/m8,imm8 (F6 /0) or TEST r/m64,imm32 (48 F7 /0) on a
\* register; a chunk is MOV EAX,imm32 (B8) or MOV RAX,imm32 (48 C7 C0)
IsTest(c) ==
  \/ Len(c) = 3 /\ c[1] = \hF6 /\ c[2] \div 8 = 24
  \/ Len(c) = 7 /\ c[1] = \h48 /\ c[2] = \hF7 /\ c[3] \div 8 = 24
IsLoadEax(c) ==
  \/ Len(c) = 5 /\ c[1] = \hB8
  \/ Len(c) = 7 /\ c[1] = \h48 /\ c[2] = \hC7 /\ c[3] = \hC0
TestChunks(chunks) == {k \in 1..Len(chunks) : IsTest(chunks[k])}

\* the CPUID leaf in EAX at chunk k: the immediate of the last load of EAX / RAX
\* before it
ProbeLeaf(chunks, k) ==
  LET loads == {j \in 1..(k - 1) : IsLoadEax(chunks[j])}
      j == CHOOSE x \in loads : \A y \in loads : y <= x
  IN IF loads = {} THEN -1
     ELSE IF chunks[j][1] = \hB8 THEN chunks[j][2] ELSE chunks[j][4]

\* the TEST standing at offset o of img: the register it tests (1 = ECX, 2 = EDX,
\* 3 = EBX, by its low byte or in full) and the bits of its mask
TestAt(img, o) ==
  IF At(img, o) = \hF6
    THEN [reg |-> At(img, o + 1) % 8, bits |-> BitsOfBytes(<<At(img, o + 2)>>)]
    ELSE [reg |-> At(img, o + 2) % 8, bits |-> BitsOfBytes(SubSeq(img, o + 4, o + 7))]

\* CPUID: the feature bits the claim names, by leaf and register
ArchitectedBit(leaf, reg) ==
  CASE leaf = 1 /\ reg = 2 -> {25}    \* SSE: leaf 1, EDX bit 25
    [] leaf = 1 /\ reg = 1 -> {28}    \* AVX: leaf 1, ECX bit 28
    [] leaf = 7 /\ reg = 3 -> {16}    \* AVX-512F: leaf 7, EBX bit 16
    [] OTHER -> {}

\* the first TEST of emit_enable_simd probes XSAVE, for which the claim names no
\* bit
XsaveProbe ==
  CHOOSE k \in TestChunks(emit_enable_simd_bytes) :
    \A j \in TestChunks(emit_enable_simd_bytes) : k <= j

ProbePhases == {"emit_cpuid_detection", "emit_enable_simd"}

\* C25 (as claimed): in every image create_bootloader returns, each TEST of
\* emit_cpuid_detection and emit_enable_simd has a mask with exactly one bit set,
\* and, the XSAVE probe apart, that bit and the register tested are bit 25 of EDX
\* after leaf 1, bit 28 of ECX after leaf 1, or bit 16 of EBX after leaf 7.
C25_ArchitectedProbeBits ==
  \A i \in Inst :
    (eret[i] # <<>> /\ eret[i][1].ok /\ LogComplete(i)) =>
      \A ph \in ProbePhases : \A k \in TestChunks(PhaseBytes(ph)) :
        LET t == TestAt(eret[i][1].image,
                        SpanLo(written[i], {ph}) + ChunkOffset(PhaseBytes(ph), k))
        IN /\ Cardinality(t.bits) = 1
           /\ (ph = "emit_enable_simd" /\ k = XsaveProbe)
                \/ t.bits = ArchitectedBit(ProbeLeaf(PhaseBytes(ph), k), t.reg)

\* what one step may do to the buffer and the cursor of emitter i
CursorStep(i) ==
  /\ Len(binary[i]) = SECTOR_SIZE /\ Len(binary'[i]) = SECTOR_SIZE
  /\ position[i] <= position'[i]
  /\ position'[i] <= CODE_LIMIT
     \* only the bytes between the old and the new position change, ...
  /\ \A o \in 0..509 :
       At(binary'[i], o) # At(binary[i], o) => (position[i] <= o /\ o < position'[i])
     \* ... and the signature bytes only in the signature step of create_bootloader
  /\ (At(binary'[i], 510) # At(binary[i], 510) \/ At(binary'[i], 511) # At(binary[i], 511))
       => (epc[i].at = "pad" /\ epc'[i].at = "ret")
     \* a successful emit_bytes stores its slice at the old position and advances
     \* the cursor by its length; a rejected one leaves the cursor
  /\ (last_emit'.fn = "emit_bytes" /\ last_emit'.inst = i) =>
       IF last_emit'.ok
         THEN /\ position'[i] = position[i] + Len(last_emit'.bytes)
              /\ SubSeq(binary'[i], position[i] + 1, position'[i]) = last_emit'.bytes
         ELSE position'[i] = position[i] /\ binary'[i] = binary[i]

\* C26: across the emit_bytes calls on a ModeTransitionEmitter the buffer stays 512
\* bytes long, the position never decreases and never exceeds 510, a successful
\* call of length n advances it by n and changes only the bytes from the old
\* position to the new one, so bytes below the position are never modified again,
\* and bytes 510 and 511 are written only by the signature step.
C26_AppendOnlyCursor ==
  [][\A i \in Inst : (variant \in {"general", "emit_bytes"}) => CursorStep(i)]_vars

\* C26 happens: a build has appended its phases and the padding up to 510 and
\* stored the signature, and a further emit_bytes was then rejected.
C26_Witness ==
  /\ variant = "general"
  /\ position[1] = CODE_LIMIT
  /\ At(binary[1], 0) = \hFA /\ At(binary[1], 509) = \h90 /\ At(binary[1], 510) = \h55
  /\ last_emit.fn = "emit_bytes" /\ ~last_emit.ok /\ last_emit.inst = 1

\* C27 (as claimed): a second build on the same builder instance returns what the
\* first returned: create_bootloader the same outcome, CompactBootloader::create
\* and MicroBootloader::create a byte-identical image.
C27_RepeatedBuildSame ==
  \A i \in Inst :
    /\ Len(eret[i]) >= 2 => eret[i][2] = eret[i][1]
    /\ Len(cret[i]) >= 2 => cret[i][2] = cret[i][1]
    /\ Len(mret[i]) >= 2 => mret[i][2] = mret[i][1]

\* x86: a chunk is a relative branch: JZ / JMP / LOOP rel8, JNZ rel16 (0F 85, in
\* 16-bit code), JZ rel32 (0F 84)
IsBranch(c) ==
  \/ Len(c) = 2 /\ c[1] \in {\h74, \hEB, \hE2}
  \/ Len(c) = 4 /\ c[1] = \h0F /\ c[2] = \h85
  \/ Len(c) = 6 /\ c[1] = \h0F /\ c[2] = \h84

\* x86: the target of the branch of length n standing at offset o of img: the
\* offset of the next instruction plus the signed displacement
BranchTarget(img, o, n) ==
  o + n + (CASE n = 2 -> Rel8(At(img, o + 1))
             [] n = 4 -> LET d == At(img, o + 2) + 256 * At(img, o + 3)
                         IN IF d >= 32768 THEN d - 65536 ELSE d
             [] n = 6 -> Rel32(img, o + 2))

\* the chunks of a phase that continue the instruction of the chunk before: the
\* address after LGDT, the offset and the selector after the far-jump opcode
OperandChunks(chunks) ==
  {k \in 2..Len(chunks) :
     \/ chunks[k - 1] \in {<<\h0F, \h01, \h16>>, <<\h0F, \h01, \h15>>, <<\hEA>>}
     \/ k > 2 /\ chunks[k - 2] = <<\hEA>>}

\* the offset at which chunk k of phase ph stands in the build logged in log
ChunkAt(log, ph, k) == SpanLo(log, {ph}) + ChunkOffset(PhaseBytes(ph), k)

PhaseNames == {create_bootloader_phases[n] : n \in 1..Len(create_bootloader_phases)}

\* the offsets at which the instructions of a finished build start: those of the
\* chunks that begin an instruction, and those of the padding NOPs
InstructionStarts(log) ==
  UNION {{ChunkAt(log, ph, k) :
            k \in (1..Len(PhaseBytes(ph))) \ OperandChunks(PhaseBytes(ph))} :
         ph \in PhaseNames}
  \cup (ContentEnd(log)..509)

\* C28 (as claimed): in every image create_bootloader returns, the target of each
\* relative branch is the offset at which an emitted instruction starts, and the
\* LOOP of emit_setup_paging targets the MOV [EDI],EAX that begins the loop body.
C28_BranchesLandOnInstructions ==
  \A i \in Inst :
    (eret[i] # <<>> /\ eret[i][1].ok /\ LogComplete(i)) =>
      \A ph \in PhaseNames : \A k \in 1..Len(PhaseBytes(ph)) :
        LET c == PhaseBytes(ph)[k]
            t == BranchTarget(eret[i][1].image, ChunkAt(written[i], ph, k), Len(c))
        IN IsBranch(c) =>
             /\ t \in InstructionStarts(written[i])
             /\ c[1] = \hE2 =>
                  \E b \in 1..(k - 1) : /\ PhaseBytes(ph)[b] = <<\h89, \h07>>
                                        /\ t = ChunkAt(written[i], ph, b)

(***************************************************************************)
(* Properties of the GraphicsKernel.                                       *)
(***************************************************************************)
\* C29: after load_graphics_code the stored code is the input followed only by
\* zero bytes, and its length is the smallest multiple of 4096 that is >= the
\* input's length (0 for empty input, the input's length when that is a multiple
\* of 4096), whatever was stored before: a second call discards the previous
\* contents.
C29_LoadPadsToPage ==
  loaded # <<>> =>
    LET input == loaded[Len(loaded)]
        n == Len(input)
        stored == kernel.code
    IN /\ Len(stored) % 4096 = 0
       /\ n <= Len(stored) /\ Len(stored) < n + 4096
       /\ SubSeq(stored, 1, n) = input
       /\ \A k \in (n + 1)..Len(stored) : stored[k] = 0

\* C29 happens: 4097 bytes were loaded (stored as 8192), then one byte, stored as
\* 4096 with nothing left of the first load.
C29_Witness ==
  /\ Len(loaded) = 2
  /\ Len(loaded[1]) = 4097 /\ Len(loaded[2]) = 1
  /\ Len(kernel.code) = 4096
  /\ kernel.code[2] = 0

\* x86: the offsets of img at which MOV RAX,imm64 (48 B8) followed by JMP RAX
\* (FF E0) stands, and the eight bytes of the address loaded at o
PayloadJumps(img) ==
  {o \in 0..500 : StandsAt(img, o, <<\h48, \hB8>>) /\ StandsAt(img, o + 10, <<\hFF, \hE0>>)}
PayloadAddress(img, o) == SubSeq(img, o + 3, o + 10)

====
